---- MODULE Spec2Model ----
(***************************************************************************)
(* blargh: the tree synchronizer of src/transform.ts (processFiles,        *)
(* traverseAndProcess, deleteEmptyDirs, transform, blargh) over a small    *)
(* file system.  File names are sequences of one-character strings, so     *)
(* that startsWith, endsWith, substring and path.extname are computed as   *)
(* the code computes them.  A path is a sequence of names below a root.    *)
(***************************************************************************)
EXTENDS Integers, Sequences, FiniteSets, TLC

\* ------------------------------------------------------------------ bounds
\* Most entries the input tree and the output tree hold together before the
\* first pass (the roots apart).
MaxEntries == 3
\* Most passes (processFiles calls) of one run.
MaxPasses == 2
\* Most edits of the input tree in one run.
MaxEdits == 1
\* Most regions (literals, statements, expressions) the templates of one pass
\* execute together.
MaxRegions == 3
\* Deepest nesting of transform calls: a root file is 1, its include 2.
MaxDepth == 2
\* Most entries of the directory tree metas is called on (its root apart).
MaxMetaEntries == 3
\* Most pieces (delimiters and single characters) a template text is made of.
MaxPieces == 4
\* Most tokens of a template whose program is run.
MaxTokens == 3
\* The iterations of a loop a template's code holds.
LoopIterations == 2
\* Most context extenders and most transformers a configuration registers.
MaxExtenders == 2
MaxTransformers == 2
\* Most processFiles calls of one run of blargh with config.watch: the first
\* pass and the passes change notifications start.
MaxWatchPasses == 3
\* Most words of an argument list.
MaxArgs == 4
\* Most iterations of parseArgs' loop that are counted.
MaxIterations == 5

\* ------------------------------------------------------------------- names
nIgn == <<"_", "i">>
nMd == <<"a", ".", "m", "d">>
nHtml == <<"a", ".", "h", "t", "m", "l">>
nPng == <<"b", ".", "p", "n", "g">>
nDir == <<"d">>
nTxt == <<"e", ".", "t", "x", "t">>
DebugSuffix == <<".", "d", "e", "b", "u", "g", ".", "j", "s">>
HtmlSuffix == <<".", "h", "t", "m", "l">>
MdSuffix == <<".", "m", "d">>
IgnorePrefix == <<"_">>

\* The names of the model, in the order readdirSync lists them (sorted).
NameOrder == <<nIgn, nHtml, nHtml \o DebugSuffix, nMd, nMd \o DebugSuffix, nPng, nDir, nTxt>>
Names == {NameOrder[i] : i \in 1..Len(NameOrder)}
NameIndex(n) == CHOOSE i \in 1..Len(NameOrder) : NameOrder[i] = n

Root == <<>>
\* The paths of the model: the root, the entries at depth one and two, and an
\* include file at depth three with its debug artifact.
Paths ==
    {Root} \cup {<<n>> : n \in Names}
    \cup {<<nIgn, nPng>>, <<nPng, nPng>>, <<nDir, nPng>>, <<nDir, nDir>>,
          <<nDir, nMd>>, <<nDir, nHtml>>, <<nDir, nMd \o DebugSuffix>>,
          <<nDir, nHtml \o DebugSuffix>>,
          <<nDir, nDir, nHtml>>, <<nDir, nDir, nHtml \o DebugSuffix>>,
          <<nDir, nTxt>>}

\* ---------------------------------------------------------- string helpers
StartsWith(s, pre) == Len(s) >= Len(pre) /\ SubSeq(s, 1, Len(pre)) = pre
EndsWith(s, suf) == Len(s) >= Len(suf) /\ SubSeq(s, Len(s) - Len(suf) + 1, Len(s)) = suf

LowerOf(c) ==
    CASE c = "M" -> "m" [] c = "D" -> "d" [] c = "A" -> "a" [] OTHER -> c
ToLowerCase(s) == [i \in 1..Len(s) |-> LowerOf(s[i])]

\* path.extname: from the last "." to the end; "" when there is none or when
\* the only "." is the first character.
LastDot(s) == IF \E i \in 1..Len(s) : s[i] = "."
              THEN CHOOSE i \in 1..Len(s) : s[i] = "." /\ \A j \in (i+1)..Len(s) : s[j] # "."
              ELSE 0
ExtName(s) == IF LastDot(s) <= 1 THEN <<>> ELSE SubSeq(s, LastDot(s), Len(s))

\* defaultConfig.transformedExtensions
TransformedExtensions ==
    { <<".", "t", "x", "t">>, HtmlSuffix, <<".", "c", "s", "s">>, <<".", "j", "s">>,
      <<".", "j", "s", "o", "n">>, MdSuffix }

isTextFile(name) == ToLowerCase(ExtName(name)) \in TransformedExtensions

\* inputItem.name.startsWith("_")
IsIgnoredName(name) == StartsWith(name, IgnorePrefix)

\* --------------------------------------------------------------- path helpers
Parent(p) == SubSeq(p, 1, Len(p) - 1)
BaseName(p) == p[Len(p)]
Join(dir, name) == Append(dir, name)
IsPrefix(q, p) == Len(q) <= Len(p) /\ SubSeq(p, 1, Len(q)) = q

\* ------------------------------------------------------------ file system
NoContent == [txt |-> "", form |-> "none"]
NoEntry == [kind |-> "none", content |-> NoContent, mtime |-> 0]
DirEntry(t) == [kind |-> "dir", content |-> NoContent, mtime |-> t]
FileEntry(c, t) == [kind |-> "file", content |-> c, mtime |-> t]
Raw(txt) == [txt |-> txt, form |-> "raw"]

EmptyTree == [p \in Paths |-> NoEntry]
Exists(tree, p) == p \in Paths /\ tree[p].kind # "none"
IsDir(tree, p) == p \in Paths /\ tree[p].kind = "dir"
IsFile(tree, p) == p \in Paths /\ tree[p].kind = "file"

\* fs.readdirSync(dir): the names of the entries of dir.
ChildNames(tree, dir) == {n \in Names : Exists(tree, Join(dir, n))}
EntriesBelow(tree, p) == {q \in Paths : IsPrefix(p, q) /\ q # p /\ Exists(tree, q)}
EntryCount(tree) == Cardinality(EntriesBelow(tree, Root))

\* The names of a set, in readdirSync's order.
RECURSIVE SortNames(_)
SortNames(S) ==
    IF S = {} THEN <<>>
    ELSE LET n == CHOOSE x \in S : \A y \in S : NameIndex(x) <= NameIndex(y)
         IN <<n>> \o SortNames(S \ {n})

\* fs.rmSync(p, {recursive: true}) / fs.unlinkSync(p) / fs.rmdirSync(p): the
\* entry and everything below it goes; the parent directory's mtime is set.
Remove(tree, p, t) ==
    [q \in Paths |->
        IF IsPrefix(p, q) THEN NoEntry
        ELSE IF q = Parent(p) /\ q # Root THEN [tree[q] EXCEPT !.mtime = t]
        ELSE tree[q]]

\* fs.writeFileSync(p, content) on a path that holds a file or nothing.
WriteFile(tree, p, c, t) ==
    [q \in Paths |->
        IF q = p THEN FileEntry(c, t)
        ELSE IF q = Parent(p) /\ q # Root /\ ~Exists(tree, p) THEN [tree[q] EXCEPT !.mtime = t]
        ELSE tree[q]]

\* fs.mkdirSync(p, {recursive: true}) on a path that holds nothing.
MkDir(tree, p, t) ==
    [q \in Paths |->
        IF q = p THEN DirEntry(t)
        ELSE IF q = Parent(p) /\ q # Root THEN [tree[q] EXCEPT !.mtime = t]
        ELSE tree[q]]

\* writeFileSync fails with EISDIR on a directory, with ENOENT without a parent.
CanWrite(tree, p) == p \in Paths /\ ~IsDir(tree, p) /\ IsDir(tree, Parent(p))

\* ------------------------------------------------------- template pipeline
\* A template's text: "tpl" evaluates, "boom" holds embedded code that throws.
Templates == {"tpl", "boom"}

\* compile(content, openTag, closeTag): the program text of the content.
Compile(content) == [txt |-> content.txt, form |-> "program"]

\* interpret(program, context): the evaluated output, or the error the
\* embedded code raises.
Interpret(program) ==
    [ok |-> program.txt # "boom", output |-> [txt |-> program.txt, form |-> "evaluated"]]

\* Mutant: the transformer converts the content and leaves outputPath alone.
MarkdownPath_Unchanged(outputPath) == outputPath

\* MarkdownTransformer: a ".md" input is converted and context.outputPath gets
\* its last three characters replaced by ".html".
MarkdownPath(outputPath) ==
    LET name == BaseName(outputPath)
    IN Join(Parent(outputPath), SubSeq(name, 1, Len(name) - 3) \o HtmlSuffix)

MarkdownTransformer(ctx, out) ==
    IF EndsWith(BaseName(ctx.inputPath), MdSuffix)
    THEN [output |-> [txt |-> out.txt, form |-> "html"],
          ctx |-> [ctx EXCEPT !.outputPath = MarkdownPath(ctx.outputPath)]]
    ELSE [output |-> out, ctx |-> ctx]

DebugPath(outputPath) == Join(Parent(outputPath), BaseName(outputPath) \o DebugSuffix)

\* Lines 108-113 of transform: with config.debug the parent directory of
\* outputPath is made when missing (mkdirSync, not recursive) and the program
\* is written to outputPath + ".debug.js"; ok = FALSE when one of them throws.
DebugArtifact(dbg, outputPath, program, tree, t) ==
    LET dpath == DebugPath(outputPath)
        outputParentDir == Parent(outputPath)
        mkOk == Exists(tree, outputParentDir) \/ IsDir(tree, Parent(outputParentDir))
        tree0 == IF dbg /\ mkOk /\ ~Exists(tree, outputParentDir)
                 THEN MkDir(tree, outputParentDir, t) ELSE tree
        ok == ~dbg \/ (mkOk /\ CanWrite(tree0, dpath))
    IN [ok |-> ok,
        tree |-> IF dbg /\ ok THEN WriteFile(tree0, dpath, program, t) ELSE tree0,
        wrote |-> dbg /\ ok]

\* transform(config, context): compile, the debug artifact when config.debug,
\* interpret, the transformers.  tree is the output tree; the result holds the
\* tree after the debug write, the returned output and the context after the
\* transformers, or ok = FALSE when an error escapes.
Transform(dbg, ctx, tree, t) ==
    LET program == Compile(ctx.content)
        d == DebugArtifact(dbg, ctx.outputPath, program, tree, t)
        ev == Interpret(program)
        tr == MarkdownTransformer(ctx, ev.output)
    IN IF ~d.ok THEN [ok |-> FALSE, tree |-> d.tree, output |-> NoContent, ctx |-> ctx,
                      debugged |-> FALSE]
       ELSE IF ~ev.ok THEN [ok |-> FALSE, tree |-> d.tree, output |-> NoContent, ctx |-> ctx,
                            debugged |-> dbg]
       ELSE [ok |-> TRUE, tree |-> d.tree, output |-> tr.output, ctx |-> tr.ctx,
             debugged |-> dbg]

\* ------------------------------------------------------------- synchronizer
\* Mutant: nothing is deleted as stale.
StaleNames_None(inputItemNames, outputItemNames) == {}

\* Lines 139-148: the output names that are deleted as stale.
StaleNames(inputItemNames, outputItemNames) ==
    {n \in outputItemNames : n \notin inputItemNames}

\* Mutant: stale files are unlinked, stale directories are left alone.
DeleteStale_FilesOnly(inp, out, dir, t) ==
    LET stale == {n \in StaleNames(ChildNames(inp, dir), ChildNames(out, dir)) :
                     IsFile(out, Join(dir, n))}
    IN [q \in Paths |->
           IF \E n \in stale : IsPrefix(Join(dir, n), q) THEN NoEntry ELSE out[q]]

\* Lines 139-148: every stale output entry is removed, a directory with all
\* that is below it.
DeleteStale(inp, out, dir, t) ==
    LET stale == StaleNames(ChildNames(inp, dir), ChildNames(out, dir))
    IN [q \in Paths |->
           IF \E n \in stale : IsPrefix(Join(dir, n), q) THEN NoEntry
           ELSE IF q = dir /\ q # Root /\ stale # {} THEN [out[q] EXCEPT !.mtime = t]
           ELSE out[q]]

\* inputItems of a directory: readdirSync(..., {withFileTypes: true}).
InputItems(inp, dir) ==
    LET names == SortNames(ChildNames(inp, dir))
    IN [i \in 1..Len(names) |-> [name |-> names[i], kind |-> inp[Join(dir, names[i])].kind]]

\* Lines 155 and 160: which branch an input item takes.
ItemBranch(item) ==
    IF item.kind = "dir" /\ ~IsIgnoredName(item.name) THEN "dir"
    ELSE IF item.kind = "file" /\ ~IsIgnoredName(item.name) THEN "file"
    ELSE "skip"

\* Mutant: a file is copied also when the output is exactly as old as the input.
FileBranch_NotOlder(name, inputStat, outputStat) ==
    IF isTextFile(name) THEN "transform"
    ELSE IF outputStat.kind = "none" \/ inputStat.mtime >= outputStat.mtime THEN "copy"
    ELSE "skip"

\* Mutant: the modification-time check guards transformable files as well.
FileBranch_MtimeFirst(name, inputStat, outputStat) ==
    IF ~(outputStat.kind = "none" \/ inputStat.mtime > outputStat.mtime) THEN "skip"
    ELSE IF isTextFile(name) THEN "transform"
    ELSE "copy"

\* Lines 175-187: what is done with a file, given its name and both stats
\* (outputStat is NoEntry when statSync throws).
FileBranch(name, inputStat, outputStat) ==
    IF isTextFile(name) THEN "transform"
    ELSE IF outputStat.kind = "none" \/ inputStat.mtime > outputStat.mtime THEN "copy"
    ELSE "skip"

\* Mutant: the write goes to the path computed before the pipeline ran.
FinalWritePath_PrePipeline(ctxBefore, ctxAfter) == ctxBefore.outputPath

\* Line 180: the path the transformed content is written to.
FinalWritePath(ctxBefore, ctxAfter) == ctxAfter.outputPath

\* Mutant: the empty children of dir are removed without descending first.
DeleteEmptyDirs_Shallow(tree, dir, t) ==
    [q \in Paths |->
        IF \E n \in ChildNames(tree, dir) :
              IsPrefix(Join(dir, n), q) /\ IsDir(tree, Join(dir, n))
              /\ ChildNames(tree, Join(dir, n)) = {}
        THEN NoEntry ELSE tree[q]]

\* Lines 197-209: deleteEmptyDirs(dir), post-order.
RECURSIVE DeleteEmptyDirsIn(_, _, _, _)
RemoveIfEmpty(tree, p, t) == IF ChildNames(tree, p) = {} THEN Remove(tree, p, t) ELSE tree
DeleteEmptyDirs(tree, dir, t) == DeleteEmptyDirsIn(tree, dir, ChildNames(tree, dir), t)
DeleteEmptyDirsIn(tree, dir, items, t) ==
    IF items = {} THEN tree
    ELSE LET n == CHOOSE x \in items : \A y \in items : NameIndex(x) <= NameIndex(y)
             p == Join(dir, n)
             tree1 == IF IsDir(tree, p)
                      THEN RemoveIfEmpty(DeleteEmptyDirs(tree, p, t), p, t)
                      ELSE tree
         IN DeleteEmptyDirsIn(tree1, dir, items \ {n}, t)

\* The traversal with the first item of the top frame done.
PopItem(stk) == [stk EXCEPT ![Len(stk)].items = Tail(stk[Len(stk)].items)]

\* Mutant: the error is caught per item and the traversal goes on.
AfterError_Continue(stk) == [status |-> "running", stack |-> PopItem(stk)]

\* What follows an error raised while an item is processed: nothing catches it
\* in processFiles, so the pass ends with the traversal where it stood.
AfterError(stk) == [status |-> "failed", stack |-> stk]

\* -------------------------------------------------------------------- state
VARIABLES
    input,      \* the input tree
    output,     \* the output tree
    debug,      \* config.debug
    watch,      \* config.watch
    now,        \* the clock that stamps modification times
    status,     \* "setup", "running", "done" (pass completed), "failed"
    stack,      \* the traversal: frames [dir, items] of traverseAndProcess
    passNo,     \* passes started
    edits,      \* input edits so far
    edited,     \* the input tree was edited since the last pass started
    caught,     \* errors that reached blargh's catch
    logged,     \* errors written by console.error
    prior,      \* history: the output tree when the current pass started
    writes,     \* history: the file writes of the current pass
    prevWrites, \* history: the file writes of the pass before
    visited,    \* history: the input paths the current pass has processed
    raised,     \* history: an error was raised in the current pass
    repeat,     \* history: the pass follows a completed pass with no edit between
    gone,       \* history: the input files deleted since the pass before
    last        \* history: what the last step of the pass did

vars == <<input, output, debug, watch, now, status, stack, passNo, edits, edited, caught, logged, prior,
          writes, prevWrites, visited, raised, repeat, gone, last>>

\* The state of one pass seen from the templates: the transform calls of the
\* root files and of the files they include (context.ts, interpreter.ts).
VARIABLES
    cfgDebug,    \* config.debug
    outTree,     \* the output tree
    roots,       \* the root files the pass has still to transform
    calls,       \* the transform calls in progress, the root's first
    rstatus,     \* "idle" (between root files), "running", "failed"
    regions,     \* regions executed in the pass
    cause,       \* where the error that failed the pass was raised
    lastContext, \* history: the Context of the root file before, as it ended
    ev           \* history: what the last step did

renderVars == <<cfgDebug, outTree, roots, calls, rstatus, regions, cause, lastContext, ev>>

\* One call of metas(dirPath) on a directory tree (context.ts 70-95).
VARIABLES
    metaTree,    \* the directory tree: what each path holds
    metaPhase,   \* "build" (the tree is being laid out), "called", "off"
    metaArg,     \* the dirPath of the call
    metaResult   \* what the call returned

metaVars == <<metaTree, metaPhase, metaArg, metaResult>>

\* One template text through tokenize, compile and interpret (interpreter.ts).
VARIABLES
    textInput,   \* the text, a sequence of characters
    textPhase,   \* "input", "tokenized", "evaluated", "failed", "off"
    textTokens,  \* what tokenize returned
    textOutput   \* what interpret returned for the compiled text

textVars == <<textInput, textPhase, textTokens, textOutput>>

\* One run of a compiled program, the async function interpret calls.
VARIABLES
    evTokens,    \* the tokens of the template
    evPhase,     \* "ready", "running", "waiting", "done", "error", "off"
    evPc,        \* the statement to execute next
    evOut,       \* the output buffer __out
    evLoops,     \* the loops entered: [start, left]
    evWait,      \* the promise an await waits for and the __out value read
    evSettled,   \* the promises that have resolved, in the order they did
    evTrace      \* history: the appends and the statements run, in order

evalVars == <<evTokens, evPhase, evPc, evOut, evLoops, evWait, evSettled, evTrace>>

\* One file item of a directory through lines 160-187 of traverseAndProcess.
VARIABLES
    fileName,    \* the name of the input file
    fileInStat,  \* fs.statSync(inputPath)
    fileOutStat, \* fs.statSync(outputPath), NoEntry when it throws
    fileOp,      \* what was done: "none" (not yet), "transform", "copy", "skip"
    fileBytes    \* the content written, NoContent when nothing was

fileVars == <<fileName, fileInStat, fileOutStat, fileOp, fileBytes>>

\* One call of parseArgs (main.ts 109-169) on an argument list.
VARIABLES
    argv,        \* process.argv from index 2 on
    argI,        \* the loop index i, counted from 1 for process.argv[2]
    args,        \* the Map args: the value of every option, absent or not
    argPhase,    \* "loop", "returned", "thrown", "exited", "off"
    argConfig,   \* the Config returned
    argIter      \* history: the loop iterations executed

argVars == <<argv, argI, args, argPhase, argConfig, argIter>>

\* One call of transform (transform.ts 103-128) under a configuration with
\* lists of context extenders and transformers.
VARIABLES
    contextExtenders, \* config.contextExtenders, in registration order
    transformers,     \* config.transformers, in registration order
    tDebug,           \* config.debug
    tContext,         \* the Context of the call: the value of every key
    tContent,         \* context.content
    tPhase,           \* "called", "extend", "transform", "returned", "thrown", "off"
    tIndex,           \* the position of the running for loop in its list
    tOutput,          \* the local variable output
    tTrace            \* history: the phases run, in order

pipeVars == <<contextExtenders, transformers, tDebug, tContext, tContent, tPhase, tIndex,
              tOutput, tTrace>>

\* blargh with config.watch (transform.ts 227-238): the first pass, then the
\* passes the fs.watch callback starts, which may overlap.  config.debug is off.
VARIABLES
    wInput,      \* the input tree, the same for every pass
    wOutput,     \* the output tree, shared by the passes
    wPasses,     \* the processFiles calls so far: [status, stack, pending, log, overlapped]
    wSingle      \* history: the output tree when the first pass completed

watchVars == <<wInput, wOutput, wPasses, wSingle>>

\* The variables each specification leaves alone.
offPass == <<renderVars, metaVars, textVars, evalVars, fileVars, argVars, pipeVars, watchVars>>
offRender == <<vars, metaVars, textVars, evalVars, fileVars, argVars, pipeVars, watchVars>>
offMeta == <<vars, renderVars, textVars, evalVars, fileVars, argVars, pipeVars, watchVars>>
offText == <<vars, renderVars, metaVars, evalVars, fileVars, argVars, pipeVars, watchVars>>
offEval == <<vars, renderVars, metaVars, textVars, fileVars, argVars, pipeVars, watchVars>>
offFile == <<vars, renderVars, metaVars, textVars, evalVars, argVars, pipeVars, watchVars>>
offArgs == <<vars, renderVars, metaVars, textVars, evalVars, fileVars, pipeVars, watchVars>>
offPipe == <<vars, renderVars, metaVars, textVars, evalVars, fileVars, argVars, watchVars>>
offWatch == <<vars, renderVars, metaVars, textVars, evalVars, fileVars, argVars, pipeVars>>

\* ----------------------------------------------------------------- contexts
\* A Context is an object: a value for every key, Undefined for a key the
\* object does not have.  A value is a path or a text.
Keys == {"inputPath", "content", "outputPath", "title"}
Undefined == [def |-> FALSE, path |-> Root, txt |-> ""]
PathVal(p) == [def |-> TRUE, path |-> p, txt |-> ""]
TextVal(x) == [def |-> TRUE, path |-> Root, txt |-> x]
NoProps == [k \in Keys |-> Undefined]

\* Object.assign(target, source) and the object spread {...target, ...source}.
ObjectAssign(target, source) ==
    [k \in Keys |-> IF source[k].def THEN source[k] ELSE target[k]]

\* The three keys render and traverseAndProcess put in a new Context.
LocalProps(inputPath, content, outputPath) ==
    [k \in Keys |->
        CASE k = "inputPath" -> PathVal(inputPath)
          [] k = "content" -> TextVal(content)
          [] k = "outputPath" -> PathVal(outputPath)
          [] OTHER -> Undefined]

\* Mutant: the Context of the root file before is used again.
FreshContext_Reuse(prev, inputPath, content, outputPath) ==
    ObjectAssign(prev, LocalProps(inputPath, content, outputPath))

\* traverseAndProcess: the Context of a root file is a new object literal.
FreshContext(prev, inputPath, content, outputPath) ==
    LocalProps(inputPath, content, outputPath)

\* Mutant: the include-local keys win over the extra properties.
DeriveContext_LocalLast(parentContext, inputPath, content, outputPath, extra) ==
    ObjectAssign(ObjectAssign(parentContext, extra),
                 LocalProps(inputPath, content, outputPath))

\* render: {...parentContext, ...{inputPath, content, outputPath}, ...extra}.
DeriveContext(parentContext, inputPath, content, outputPath, extra) ==
    ObjectAssign(ObjectAssign(parentContext, LocalProps(inputPath, content, outputPath)),
                 extra)

NoEvent ==
    [op |-> "none", key |-> "", props |-> NoProps, ctx |-> NoProps, caller |-> NoProps,
     path |-> Root, opath |-> Root, tree |-> EmptyTree, appended |-> <<>>, wrote |-> {}]

\* No call of metas is made.
MetaIdle ==
    /\ metaTree = <<>>
    /\ metaPhase = "off"
    /\ metaArg = <<>>
    /\ metaResult = <<>>

\* No text is compiled.
TextIdle ==
    /\ textInput = <<>>
    /\ textPhase = "off"
    /\ textTokens = <<>>
    /\ textOutput = <<>>

\* No program is run.
NoWait == [on |-> <<>>, held |-> <<>>]
EvalIdle ==
    /\ evTokens = <<>>
    /\ evPhase = "off"
    /\ evPc = 0
    /\ evOut = <<>>
    /\ evLoops = <<>>
    /\ evWait = NoWait
    /\ evSettled = <<>>
    /\ evTrace = <<>>

\* No single file is looked at.
FileIdle ==
    /\ fileName = <<>>
    /\ fileInStat = NoEntry
    /\ fileOutStat = NoEntry
    /\ fileOp = "off"
    /\ fileBytes = NoContent

\* No argument list is parsed.
ArgsIdle ==
    /\ argv = <<>>
    /\ argI = 0
    /\ args = <<>>
    /\ argPhase = "off"
    /\ argConfig = <<>>
    /\ argIter = 0

\* No transform call is followed phase by phase.
PipeIdle ==
    /\ contextExtenders = <<>>
    /\ transformers = <<>>
    /\ tDebug = FALSE
    /\ tContext = <<>>
    /\ tContent = ""
    /\ tPhase = "off"
    /\ tIndex = 0
    /\ tOutput = <<>>
    /\ tTrace = <<>>

\* No watcher runs.
WatchIdle ==
    /\ wInput = EmptyTree
    /\ wOutput = EmptyTree
    /\ wPasses = <<>>
    /\ wSingle = EmptyTree

\* No pass is seen from the templates.
RenderIdle ==
    /\ cfgDebug = FALSE
    /\ outTree = EmptyTree
    /\ roots = <<>>
    /\ calls = <<>>
    /\ rstatus = "idle"
    /\ regions = 0
    /\ cause = "none"
    /\ lastContext = NoProps
    /\ ev = NoEvent

NoStep == [op |-> "none", path |-> Root, inputStat |-> NoEntry, outputStat |-> NoEntry,
           wrote |-> {}, ok |-> TRUE, before |-> EmptyTree]
Step(op, p, wrote, ok) ==
    [op |-> op, path |-> p, inputStat |-> input[p], outputStat |-> output[p],
     wrote |-> wrote, ok |-> ok, before |-> output]
WriteRec(to, from, how) == [to |-> to, from |-> from, how |-> how]

\* The entries the trees may hold before the first pass.
InputCandidates ==
    [path : {<<nIgn>>}, entry : {FileEntry(Raw("bin"), 0), DirEntry(0)}]
    \cup [path : {<<nIgn, nPng>>, <<nDir, nPng>>, <<nHtml>>}, entry : {FileEntry(Raw("bin"), 0)}]
    \cup [path : {<<nMd>>}, entry : {FileEntry(Raw("tpl"), 0), FileEntry(Raw("boom"), 0)}]
    \cup [path : {<<nDir, nMd>>}, entry : {FileEntry(Raw("tpl"), 0)}]
    \cup [path : {<<nPng>>}, entry : {FileEntry(Raw("bin"), 0)}]
    \cup [path : {<<nDir>>, <<nDir, nDir>>}, entry : {DirEntry(0)}]

OutputCandidates ==
    [path : {<<nIgn>>}, entry : {FileEntry(Raw("old"), 0), DirEntry(0)}]
    \cup [path : {<<nIgn, nPng>>, <<nPng, nPng>>, <<nDir, nPng>>, <<nMd>>},
          entry : {FileEntry(Raw("old"), 0)}]
    \cup [path : {<<nHtml>>}, entry : {FileEntry(Raw("old"), 0), FileEntry(Raw("old"), 1)}]
    \cup [path : {<<nPng>>}, entry : {FileEntry(Raw("old"), 0), FileEntry(Raw("old"), 1),
                                      DirEntry(0)}]
    \cup [path : {<<nDir>>}, entry : {DirEntry(0), FileEntry(Raw("old"), 0)}]
    \cup [path : {<<nDir, nDir>>}, entry : {DirEntry(0)}]

Init ==
    /\ input = [EmptyTree EXCEPT ![Root] = DirEntry(0)]
    /\ output \in {EmptyTree, [EmptyTree EXCEPT ![Root] = DirEntry(0)]}
    /\ debug \in BOOLEAN
    /\ watch \in BOOLEAN
    /\ now = 1
    /\ status = "setup"
    /\ stack = <<>>
    /\ passNo = 0
    /\ edits = 0
    /\ edited = FALSE
    /\ caught = 0
    /\ logged = 0
    /\ prior = EmptyTree
    /\ writes = {}
    /\ prevWrites = {}
    /\ visited = {}
    /\ raised = FALSE
    /\ repeat = FALSE
    /\ gone = {}
    /\ last = NoStep
    /\ RenderIdle /\ MetaIdle /\ TextIdle /\ EvalIdle /\ FileIdle /\ ArgsIdle /\ PipeIdle /\ WatchIdle

\* No pass of the synchronizer runs.
PassIdle ==
    /\ input = EmptyTree
    /\ output = EmptyTree
    /\ debug = FALSE
    /\ watch = FALSE
    /\ now = 0
    /\ status = "off"
    /\ stack = <<>>
    /\ passNo = 0
    /\ edits = 0
    /\ edited = FALSE
    /\ caught = 0
    /\ logged = 0
    /\ prior = EmptyTree
    /\ writes = {}
    /\ prevWrites = {}
    /\ visited = {}
    /\ raised = FALSE
    /\ repeat = FALSE
    /\ gone = {}
    /\ last = NoStep

\* -------------------------------------------------------------- environment
\* The user's input tree and what an earlier run left in the output tree.
AddInput ==
    /\ status = "setup"
    /\ EntryCount(input) + EntryCount(output) < MaxEntries
    /\ \E c \in InputCandidates :
        /\ ~Exists(input, c.path)
        /\ IsDir(input, Parent(c.path))
        /\ input' = [input EXCEPT ![c.path] = c.entry]
    /\ UNCHANGED <<output, debug, watch, now, status, stack, passNo, edits, edited, caught, logged, prior,
                   writes, prevWrites, visited, raised, repeat, gone, last>>
    /\ UNCHANGED offPass

AddOutput ==
    /\ status = "setup"
    /\ EntryCount(input) + EntryCount(output) < MaxEntries
    /\ \E c \in OutputCandidates :
        /\ ~Exists(output, c.path)
        /\ IsDir(output, Parent(c.path))
        /\ output' = [output EXCEPT ![c.path] = c.entry]
    /\ UNCHANGED <<input, debug, watch, now, status, stack, passNo, edits, edited, caught, logged, prior,
                   writes, prevWrites, visited, raised, repeat, gone, last>>
    /\ UNCHANGED offPass

\* A file of the input tree is deleted between two passes.
DeleteInput ==
    /\ status \in {"done", "failed"}
    /\ edits < MaxEdits
    /\ \E p \in Paths :
        /\ IsFile(input, p)
        /\ input' = Remove(input, p, now)
        /\ gone' = gone \cup {p}
    /\ edits' = edits + 1
    /\ edited' = TRUE
    /\ UNCHANGED <<output, debug, watch, now, status, stack, passNo, caught, logged, prior,
                   writes, prevWrites, visited, raised, repeat, last>>
    /\ UNCHANGED offPass

\* A file of the input tree is modified between two passes.
TouchInput ==
    /\ status \in {"done", "failed"}
    /\ edits < MaxEdits
    /\ \E p \in Paths :
        /\ IsFile(input, p)
        /\ input' = [input EXCEPT ![p].mtime = now + 1]
    /\ now' = now + 1
    /\ edits' = edits + 1
    /\ edited' = TRUE
    /\ UNCHANGED <<output, debug, watch, status, stack, passNo, caught, logged, prior,
                   writes, prevWrites, visited, raised, repeat, gone, last>>
    /\ UNCHANGED offPass

\* --------------------------------------------------------------- the pass
Frame(dir) == [dir |-> dir, items |-> InputItems(input, dir)]
Top == stack[Len(stack)]
Item == Top.items[1]
HeadPath == Join(Top.dir, Item.name)

\* An error raised while an item is processed.  inTransform: it was raised
\* inside transform, whose catch writes it with console.error and rethrows it;
\* blargh's catch is empty.
Fail(stk, inTransform) ==
    LET a == AfterError(stk)
    IN /\ status' = a.status
       /\ stack' = a.stack
       /\ raised' = TRUE
       /\ caught' = IF a.status = "failed" THEN caught + 1 ELSE caught
       /\ logged' = IF inTransform THEN logged + 1 ELSE logged

\* processFiles up to the first item: lines 192-195 and 133-148 for the root.
\* The first pass is blargh's own call; a later one is started by the fs.watch
\* callback, which is registered only when config.watch is set.
StartPass ==
    /\ status = "setup" \/ (watch /\ status \in {"done", "failed"})
    /\ passNo < MaxPasses
    /\ LET out1 == IF Exists(output, Root) THEN output
                   ELSE [output EXCEPT ![Root] = DirEntry(now)]
       IN output' = DeleteStale(input, out1, Root, now)
    /\ stack' = <<Frame(Root)>>
    /\ status' = "running"
    /\ passNo' = passNo + 1
    /\ prior' = output
    /\ prevWrites' = writes
    /\ writes' = {}
    /\ visited' = {}
    /\ raised' = FALSE
    /\ repeat' = (status = "done" /\ ~edited)
    /\ gone' = IF status = "setup" THEN {} ELSE gone
    /\ last' = Step("start", Root, {}, TRUE)
    /\ edited' = FALSE
    /\ UNCHANGED <<input, debug, watch, now, caught, logged, edits>>
    /\ UNCHANGED offPass

Running == status = "running" /\ stack # <<>>

\* Lines 155-159: a directory item: mkdir when missing, then the recursive call
\* up to its first item (readdir of both sides, stale deletion).
VisitDir ==
    /\ Running /\ Top.items # <<>>
    /\ ItemBranch(Item) = "dir"
    /\ visited' = visited \cup {HeadPath}
    /\ LET p == HeadPath
           out1 == IF Exists(output, p) THEN output ELSE MkDir(output, p, now)
       IN IF IsDir(out1, p)
          THEN /\ output' = DeleteStale(input, out1, p, now)
               /\ stack' = Append(PopItem(stack), Frame(p))
               /\ last' = Step("dir", p, {}, TRUE)
               /\ UNCHANGED <<status, raised, caught, logged>>
          ELSE /\ output' = out1
               /\ last' = Step("dir", p, {}, FALSE)
               /\ Fail(stack, FALSE)
    /\ UNCHANGED <<input, debug, watch, now, passNo, edits, edited, prior, writes, prevWrites,
                   repeat, gone>>
    /\ UNCHANGED offPass

\* Lines 175-180: a transformable file: read, transform, write.
TransformFile ==
    /\ Running /\ Top.items # <<>>
    /\ ItemBranch(Item) = "file"
    /\ FileBranch(Item.name, input[HeadPath], output[HeadPath]) = "transform"
    /\ visited' = visited \cup {HeadPath}
    /\ LET p == HeadPath
           ctx == [inputPath |-> p, content |-> input[p].content, outputPath |-> p]
           r == Transform(debug, ctx, output, now)
           target == FinalWritePath(ctx, r.ctx)
           dbgw == IF r.debugged THEN {WriteRec(DebugPath(p), p, "debug")} ELSE {}
       IN IF r.ok /\ CanWrite(r.tree, target)
          THEN /\ output' = WriteFile(r.tree, target, r.output, now)
               /\ writes' = writes \cup dbgw \cup {WriteRec(target, p, "result")}
               /\ stack' = PopItem(stack)
               /\ last' = Step("transform", p, {target}, TRUE)
               /\ UNCHANGED <<status, raised, caught, logged>>
          ELSE /\ output' = r.tree
               /\ writes' = writes \cup dbgw
               /\ last' = Step("transform", p, {}, FALSE)
               /\ Fail(stack, ~r.ok)
    /\ UNCHANGED <<input, debug, watch, now, passNo, edits, edited, prior, prevWrites, repeat, gone>>
    /\ UNCHANGED offPass

\* Lines 181-187: any other file: copied when missing or older than the input.
CopyFile ==
    /\ Running /\ Top.items # <<>>
    /\ ItemBranch(Item) = "file"
    /\ FileBranch(Item.name, input[HeadPath], output[HeadPath]) # "transform"
    /\ visited' = visited \cup {HeadPath}
    /\ LET p == HeadPath
           copy == FileBranch(Item.name, input[p], output[p]) = "copy"
       IN IF ~copy
          THEN /\ last' = Step("static", p, {}, TRUE)
               /\ stack' = PopItem(stack)
               /\ UNCHANGED <<output, writes, status, raised, caught, logged>>
          ELSE IF CanWrite(output, p)
          THEN /\ output' = WriteFile(output, p, input[p].content, now)
               /\ writes' = writes \cup {WriteRec(p, p, "copy")}
               /\ stack' = PopItem(stack)
               /\ last' = Step("static", p, {p}, TRUE)
               /\ UNCHANGED <<status, raised, caught, logged>>
          ELSE /\ last' = Step("static", p, {}, FALSE)
               /\ Fail(stack, FALSE)
               /\ UNCHANGED <<output, writes>>
    /\ UNCHANGED <<input, debug, watch, now, passNo, edits, edited, prior, prevWrites, repeat, gone>>
    /\ UNCHANGED offPass

\* Lines 155 and 160: an item whose name starts with "_" takes no branch.
SkipItem ==
    /\ Running /\ Top.items # <<>>
    /\ ItemBranch(Item) = "skip"
    /\ stack' = PopItem(stack)
    /\ last' = Step("skip", HeadPath, {}, TRUE)
    /\ UNCHANGED <<input, output, debug, watch, now, status, passNo, edits, edited, caught, logged, prior,
                   writes, prevWrites, visited, raised, repeat, gone>>
    /\ UNCHANGED offPass

\* Line 159: traverseAndProcess of a subdirectory returns.
LeaveDir ==
    /\ Running /\ Top.items = <<>> /\ Len(stack) > 1
    /\ stack' = SubSeq(stack, 1, Len(stack) - 1)
    /\ last' = Step("leave", Top.dir, {}, TRUE)
    /\ UNCHANGED <<input, output, debug, watch, now, status, passNo, edits, edited, caught, logged, prior,
                   writes, prevWrites, visited, raised, repeat, gone>>
    /\ UNCHANGED offPass

\* Lines 195-210: the traversal of the root returns; deleteEmptyDirs; done.
FinishPass ==
    /\ Running /\ Top.items = <<>> /\ Len(stack) = 1
    /\ output' = DeleteEmptyDirs(output, Root, now)
    /\ stack' = <<>>
    /\ status' = "done"
    /\ last' = Step("prune", Root, {}, TRUE)
    /\ UNCHANGED <<input, debug, watch, now, passNo, edits, edited, caught, logged, prior,
                   writes, prevWrites, visited, raised, repeat, gone>>
    /\ UNCHANGED offPass

Next ==
    \/ AddInput \/ AddOutput \/ DeleteInput \/ TouchInput
    \/ StartPass \/ VisitDir \/ TransformFile \/ CopyFile \/ SkipItem
    \/ LeaveDir \/ FinishPass

Spec == Init /\ [][Next]_vars

\* ================================================= the pass seen from templates
\* The files of the input tree a template can name, all templates.
RenderInputs == {<<nHtml>>, <<nMd>>, <<nDir, nHtml>>, <<nDir, nMd>>, <<nDir, nDir, nHtml>>}
RootFiles == <<<<nHtml>>, <<nMd>>>>
\* The relative paths the templates pass to render.
IncludePaths == {<<nDir, nHtml>>, <<nDir, nMd>>, <<nDir, nDir, nHtml>>}
\* The extra properties the templates pass to render.
Extras ==
    {NoProps, [NoProps EXCEPT !["title"] = TextVal("x")],
     [NoProps EXCEPT !["outputPath"] = PathVal(<<nHtml>>)]}
\* The objects the meta.json files hold.
Metas ==
    {[NoProps EXCEPT !["title"] = TextVal("m")],
     [NoProps EXCEPT !["outputPath"] = PathVal(<<nDir, nHtml>>)]}
\* The values statement regions assign.
Assigned == {"s"}

\* path.resolve(dir, relativePath).
Resolve(dir, rel) == dir \o rel

\* marked.parse(output).
MarkdownConvert(out) == <<"<p>">> \o out \o <<"</p>">>

\* config.transformers, the MarkdownTransformer alone, on a Context object.
Transformers(ctx, out) ==
    LET r == MarkdownTransformer([inputPath |-> ctx["inputPath"].path,
                                  outputPath |-> ctx["outputPath"].path],
                                 [txt |-> "", form |-> "evaluated"])
    IN [ctx |-> IF r.output.form = "html"
                THEN [ctx EXCEPT !["outputPath"] = PathVal(r.ctx.outputPath)] ELSE ctx,
        out |-> IF r.output.form = "html" THEN MarkdownConvert(out) ELSE out,
        form |-> r.output.form]

\* A transform call: its Context, the Context as the call got it, the
\* caller's Context when it called, the keys the file's statements have set,
\* the output buffer __out, the regions executed, and the two directories the
\* DefaultContextExtender resolves relative paths against.
NewCall(ctx, callerCtx) ==
    [context |-> ctx, derived |-> ctx, atCall |-> callerCtx, set |-> NoProps,
     out |-> <<>>, n |-> 0,
     inputParentDir |-> Parent(ctx["inputPath"].path),
     outputParentDir |-> Parent(ctx["outputPath"].path)]

Call == calls[Len(calls)]
WithCall(f) == [calls EXCEPT ![Len(calls)] = f]
Event(op, key, props) ==
    [NoEvent EXCEPT !.op = op, !.key = key, !.props = props,
                    !.ctx = IF calls = <<>> THEN NoProps ELSE Call.context,
                    !.tree = outTree]

\* Mutant: render writes the output of the include like the output of a root.
IncludeResult_Written(tree, ctx, form) ==
    IF CanWrite(tree, ctx["outputPath"].path)
    THEN WriteFile(tree, ctx["outputPath"].path, [txt |-> "tpl", form |-> form], 1)
    ELSE tree

\* render returns what transform returns: the output tree stays as it is.
IncludeResult(tree, ctx, form) == tree

RenderInit ==
    /\ cfgDebug \in BOOLEAN
    /\ outTree \in {[EmptyTree EXCEPT ![Root] = DirEntry(0)],
                    [EmptyTree EXCEPT ![Root] = DirEntry(0), ![<<nDir>>] = DirEntry(0)]}
    /\ roots = RootFiles
    /\ calls = <<>>
    /\ rstatus = "idle"
    /\ regions = 0
    /\ cause = "none"
    /\ lastContext = NoProps
    /\ ev = NoEvent
    /\ PassIdle /\ MetaIdle /\ TextIdle /\ EvalIdle /\ FileIdle /\ ArgsIdle /\ PipeIdle /\ WatchIdle

\* An error: it rejects every transform call in progress, and the pass.
Throw(c, e) ==
    /\ rstatus' = "failed"
    /\ cause' = c
    /\ ev' = e
    /\ UNCHANGED <<roots, calls, lastContext>>

\* One more region has been executed.
Count == regions' = regions + 1

\* traverseAndProcess 175-179 and transform 104-117: the next root file gets
\* a new Context and transform runs up to the first region of its code.
StartRoot ==
    /\ rstatus = "idle" /\ roots # <<>>
    /\ LET p == Head(roots)
           ctx == FreshContext(lastContext, p, "tpl", p)
           d == DebugArtifact(cfgDebug, ctx["outputPath"].path, Compile(Raw("tpl")), outTree, 1)
           e == [Event("root", "", NoProps) EXCEPT !.path = p, !.opath = p]
       IN /\ outTree' = d.tree
          /\ IF d.ok
             THEN /\ calls' = <<NewCall(ctx, ctx)>>
                  /\ rstatus' = "running"
                  /\ ev' = e
                  /\ UNCHANGED <<roots, cause, lastContext>>
             ELSE Throw("debug", e)
    /\ UNCHANGED <<cfgDebug, regions, offRender>>

Executing == rstatus = "running" /\ calls # <<>> /\ regions < MaxRegions

\* A literal region: __out += "...".
Literal ==
    /\ Executing
    /\ calls' = WithCall([Call EXCEPT !.out = Append(@, "L"), !.n = @ + 1])
    /\ ev' = [Event("lit", "", NoProps) EXCEPT !.appended = <<"L">>]
    /\ Count
    /\ UNCHANGED <<cfgDebug, outTree, roots, rstatus, cause, lastContext, offRender>>

\* A statement region that assigns a Context key: <% this.title = "s" %>.
Assign ==
    /\ Executing
    /\ \E v \in Assigned :
        /\ calls' = WithCall([Call EXCEPT !.context["title"] = TextVal(v),
                                          !.set["title"] = TextVal(v), !.n = @ + 1])
        /\ ev' = [Event("set", "title", NoProps) EXCEPT !.appended = <<v>>]
    /\ Count
    /\ UNCHANGED <<cfgDebug, outTree, roots, rstatus, cause, lastContext, offRender>>

\* An expression region <%= title %>: the name is looked up in the Context
\* (with (this)); a name no object has is a ReferenceError.
Expression ==
    /\ Executing
    /\ LET v == Call.context["title"]
           e == Event("get", "title", NoProps)
       IN IF v.def
          THEN /\ calls' = WithCall([Call EXCEPT !.out = Append(@, v.txt), !.n = @ + 1])
               /\ ev' = [e EXCEPT !.appended = <<v.txt>>]
               /\ UNCHANGED <<roots, rstatus, cause, lastContext>>
          ELSE Throw("code", e)
    /\ Count
    /\ UNCHANGED <<cfgDebug, outTree, offRender>>

\* A statement region <% meta() %>: Object.assign(context, meta).
Meta ==
    /\ Executing
    /\ \E m \in Metas :
        /\ calls' = WithCall([Call EXCEPT !.context = ObjectAssign(@, m),
                                          !.set = ObjectAssign(@, m), !.n = @ + 1])
        /\ ev' = Event("meta", "", m)
    /\ Count
    /\ UNCHANGED <<cfgDebug, outTree, roots, rstatus, cause, lastContext, offRender>>

\* An expression region <%= render(filePath, extra) %> up to the first region
\* of the included file: render 45-57 and transform 104-117.
Render ==
    /\ Executing /\ Len(calls) < MaxDepth
    /\ \E rel \in IncludePaths, extra \in Extras :
        LET includeInputPath == Resolve(Call.inputParentDir, rel)
            includeOutputPath == Resolve(Call.outputParentDir, rel)
            includeContext == DeriveContext(Call.context, includeInputPath, "tpl",
                                            includeOutputPath, extra)
            d == DebugArtifact(cfgDebug, includeContext["outputPath"].path,
                               Compile(Raw("tpl")), outTree, 1)
            e == [Event("call", "", extra) EXCEPT !.path = includeInputPath,
                                                  !.opath = includeOutputPath]
        IN IF includeInputPath \notin RenderInputs
           THEN Throw("read", e) /\ UNCHANGED outTree
           ELSE /\ outTree' = d.tree
                /\ IF d.ok
                   THEN /\ calls' = Append(WithCall([Call EXCEPT !.n = @ + 1]),
                                           NewCall(includeContext, Call.context))
                        /\ ev' = e
                        /\ UNCHANGED <<roots, rstatus, cause, lastContext>>
                   ELSE Throw("debug", e)
    /\ Count
    /\ UNCHANGED <<cfgDebug, offRender>>

\* The code of an included file ends: the transformers, transform returns,
\* render returns, and the caller appends the awaited value.
Return ==
    /\ rstatus = "running" /\ Len(calls) > 1
    /\ LET t == Transformers(Call.context, Call.out)
           caller == calls[Len(calls) - 1]
       IN /\ calls' = [i \in 1..(Len(calls) - 1) |->
                          IF i = Len(calls) - 1
                          THEN [caller EXCEPT !.out = @ \o t.out] ELSE calls[i]]
          /\ outTree' = IncludeResult(outTree, t.ctx, t.form)
          /\ ev' = [Event("return", "", NoProps) EXCEPT !.caller = Call.atCall,
                                                        !.ctx = t.ctx,
                                                        !.appended = t.out,
                                                        !.path = Call.derived["inputPath"].path,
                                                        !.opath = Call.derived["outputPath"].path]
    /\ UNCHANGED <<cfgDebug, roots, rstatus, regions, cause, lastContext, offRender>>

\* The code of a root file ends: the transformers, transform returns, and
\* traverseAndProcess writes the output to context.outputPath (line 180).
FinishRoot ==
    /\ rstatus = "running" /\ Len(calls) = 1
    /\ LET t == Transformers(Call.context, Call.out)
           target == t.ctx["outputPath"].path
           e == [Event("finish", "", NoProps) EXCEPT !.ctx = t.ctx, !.appended = t.out,
                                                     !.path = Call.derived["inputPath"].path,
                                                     !.opath = Call.derived["outputPath"].path]
       IN IF CanWrite(outTree, target)
          THEN /\ outTree' = WriteFile(outTree, target, [txt |-> "tpl", form |-> t.form], 1)
               /\ calls' = <<>>
               /\ roots' = Tail(roots)
               /\ rstatus' = "idle"
               /\ lastContext' = t.ctx
               /\ ev' = [e EXCEPT !.wrote = {target}]
               /\ UNCHANGED cause
          ELSE Throw("write", e) /\ UNCHANGED outTree
    /\ UNCHANGED <<cfgDebug, regions, offRender>>

RenderNext ==
    \/ StartRoot \/ Literal \/ Assign \/ Expression \/ Meta \/ Render \/ Return \/ FinishRoot

RenderSpec == RenderInit /\ [][RenderNext]_renderVars

\* ===================================================================== metas
\* The directory tree of a metas call: directories named p and q down to
\* depth three; a directory holds a meta.json file or not.
MetaNames == <<"p", "q">>
MetaFileName == "meta.json"
MetaPaths ==
    {<<>>} \cup {<<a>> : a \in {"p", "q"}} \cup {<<a, b>> : a, b \in {"p", "q"}}
    \cup {<<a, b, c>> : a, b, c \in {"p", "q"}}
\* The texts of the meta.json files.
MetaTexts == {"{\"k\":1}", "{\"k\":2}"}
NoMeta == ""
MetaNone == [kind |-> "none", meta |-> NoMeta]
MetaFile == [kind |-> "file", meta |-> NoMeta]
MetaDir(text) == [kind |-> "dir", meta |-> text]
MetaEntries == {MetaFile, MetaDir(NoMeta)} \cup {MetaDir(x) : x \in MetaTexts}

\* JSON.parse of the text of a meta.json file.
JsonParse(text) == IF text = "{\"k\":1}" THEN [k |-> 1] ELSE [k |-> 2]

\* fs.lstatSync(fullPath).isDirectory().
IsDirectory(tree, fullPath) == fullPath \in MetaPaths /\ tree[fullPath].kind = "dir"
\* fs.existsSync(path.resolve(fullPath, "meta.json")).
ExistsMeta(tree, fullPath) == IsDirectory(tree, fullPath) /\ tree[fullPath].meta # NoMeta
\* fs.readdirSync(dir): meta.json sorts before p and q.
ReadDir(tree, dir) ==
    (IF tree[dir].meta # NoMeta THEN <<MetaFileName>> ELSE <<>>)
    \o SelectSeq(MetaNames, LAMBDA a : dir \o <<a>> \in MetaPaths
                                       /\ tree[dir \o <<a>>].kind # "none")
\* path.relative(dirPath, fullPath) for a fullPath below dirPath.
Relative(dirPath, fullPath) == SubSeq(fullPath, Len(dirPath) + 1, Len(fullPath))

\* Lines 82-85: the record metas pushes for a directory with a meta.json.
MetaRecord(tree, dirPath, fullPath) ==
    <<[directory |-> Relative(dirPath, fullPath), meta |-> JsonParse(tree[fullPath].meta)]>>

\* findMetas(dir), lines 73-92: the files of dir in order; a directory with a
\* meta.json gives a record, else a directory is searched.
RECURSIVE FindMetasIn(_, _, _, _)
FindMetasIn(tree, dirPath, dir, files) ==
    IF files = <<>> THEN <<>>
    ELSE LET fullPath == dir \o <<Head(files)>>
             found == IF ExistsMeta(tree, fullPath) THEN MetaRecord(tree, dirPath, fullPath)
                      ELSE IF IsDirectory(tree, fullPath)
                      THEN FindMetasIn(tree, dirPath, fullPath, ReadDir(tree, fullPath))
                      ELSE <<>>
         IN found \o FindMetasIn(tree, dirPath, dir, Tail(files))

\* metas(dirPath), lines 70-95.
Metas_(tree, dirPath) == FindMetasIn(tree, dirPath, dirPath, ReadDir(tree, dirPath))

MetaEntryCount(tree) == Cardinality({q \in MetaPaths : q # <<>> /\ tree[q].kind # "none"})

MetaInit ==
    /\ metaTree \in {[q \in MetaPaths |-> IF q = <<>> THEN MetaDir(x) ELSE MetaNone] :
                       x \in {NoMeta, "{\"k\":1}"}}
    /\ metaPhase = "build"
    /\ metaArg = <<>>
    /\ metaResult = <<>>
    /\ PassIdle /\ RenderIdle /\ TextIdle /\ EvalIdle /\ FileIdle /\ ArgsIdle /\ PipeIdle /\ WatchIdle

\* The directory tree gets one more entry.
MetaAdd ==
    /\ metaPhase = "build"
    /\ MetaEntryCount(metaTree) < MaxMetaEntries
    /\ \E q \in MetaPaths \ {<<>>}, e \in MetaEntries :
        /\ metaTree[q].kind = "none"
        /\ metaTree[SubSeq(q, 1, Len(q) - 1)].kind = "dir"
        /\ metaTree' = [metaTree EXCEPT ![q] = e]
    /\ UNCHANGED <<metaPhase, metaArg, metaResult, offMeta>>

\* A template calls metas(dirPath) on a directory.
MetasCall ==
    /\ metaPhase = "build"
    /\ \E dirPath \in MetaPaths :
        /\ IsDirectory(metaTree, dirPath)
        /\ metaArg' = dirPath
        /\ metaResult' = Metas_(metaTree, dirPath)
    /\ metaPhase' = "called"
    /\ UNCHANGED <<metaTree, offMeta>>

MetaNext == MetaAdd \/ MetasCall

MetaSpec == MetaInit /\ [][MetaNext]_metaVars

\* ======================================================= tokenize and compile
\* Texts are sequences of characters.
OpenTag == <<"<", "%">>
CloseTag == <<"%", ">">>
Quote == "\""
Backslash == "\\"
LineFeed == "\n"
CarriageReturn == "\r"
\* What the texts of the model are made of.
Pieces ==
    {OpenTag, CloseTag, <<"%">>, <<">">>, <<"n">>, <<Quote>>, <<Backslash>>,
     <<LineFeed>>, <<CarriageReturn>>}

RECURSIVE Concat(_)
Concat(ss) == IF ss = <<>> THEN <<>> ELSE Head(ss) \o Concat(Tail(ss))

\* String.prototype.indexOf(pat, from), positions counted from 1; 0: none.
IndexOf(str, pat, from) ==
    LET hits == {i \in from..(Len(str) - Len(pat) + 1) : SubSeq(str, i, i + Len(pat) - 1) = pat}
    IN IF hits = {} THEN 0 ELSE CHOOSE i \in hits : \A j \in hits : i <= j

\* String.prototype.substring(start, end): the indexes are clamped to the
\* text and swapped when start is the greater one.
Substring(str, start, end) ==
    LET clamp(i) == IF i < 0 THEN 0 ELSE IF i > Len(str) THEN Len(str) ELSE i
        a == clamp(start)
        b == clamp(end)
    IN IF a <= b THEN SubSeq(str, a + 1, b) ELSE SubSeq(str, b + 1, a)

\* input.split(/(<%[\s\S]*?%>)/g) from position from on: the text before each
\* match and the match, the capture group, in turn; the match is lazy, from
\* the first open tag to the first close tag after it.
RECURSIVE SplitFrom(_, _, _, _)
SplitFrom(str, openTag, closeTag, from) ==
    LET i == IndexOf(str, openTag, from)
        j == IF i = 0 THEN 0 ELSE IndexOf(str, closeTag, i + Len(openTag))
    IN IF i = 0 \/ j = 0 THEN <<SubSeq(str, from, Len(str))>>
       ELSE <<SubSeq(str, from, i - 1), SubSeq(str, i, j + Len(closeTag) - 1)>>
            \o SplitFrom(str, openTag, closeTag, j + Len(closeTag))

\* Lines 10-16: what tokenize pushes for one part of the split.
PartTokens(part, openTag, closeTag) ==
    IF StartsWith(part, openTag) /\ EndsWith(part, closeTag)
    THEN <<[type |-> "expression",
            text |-> Substring(part, Len(openTag), Len(part) - Len(closeTag))]>>
    ELSE IF part # <<>> THEN <<[type |-> "content", text |-> part]>>
    ELSE <<>>

RECURSIVE PartsTokens(_, _, _)
PartsTokens(parts, openTag, closeTag) ==
    IF parts = <<>> THEN <<>>
    ELSE PartTokens(Head(parts), openTag, closeTag)
         \o PartsTokens(Tail(parts), openTag, closeTag)

tokenize(input_, openTag, closeTag) ==
    PartsTokens(SplitFrom(input_, openTag, closeTag, 1), openTag, closeTag)

\* text.replace(/c/g, by) for a one-character pattern.
RECURSIVE ReplaceAll(_, _, _)
ReplaceAll(str, c, by) ==
    IF str = <<>> THEN <<>>
    ELSE (IF Head(str) = c THEN by ELSE <<Head(str)>>) \o ReplaceAll(Tail(str), c, by)

\* Mutant: the quotes are escaped before the backslashes.
escapeString_QuotesFirst(text) ==
    ReplaceAll(ReplaceAll(ReplaceAll(ReplaceAll(text,
        Quote, <<Backslash, Quote>>),
        Backslash, <<Backslash, Backslash>>),
        LineFeed, <<Backslash, "n">>),
        CarriageReturn, <<Backslash, "r">>)

\* escapeString, line 29: backslashes, quotes, line feeds, carriage returns.
escapeString(text) ==
    ReplaceAll(ReplaceAll(ReplaceAll(ReplaceAll(text,
        Backslash, <<Backslash, Backslash>>),
        Quote, <<Backslash, Quote>>),
        LineFeed, <<Backslash, "n">>),
        CarriageReturn, <<Backslash, "r">>)

\* Lines 37-47: the statement compile emits for one token.  A content token
\* gives __out += "<escaped text>"; the body holds what is between the quotes.
TokenLine(token) ==
    IF token.type = "expression"
    THEN IF StartsWith(token.text, <<"=">>)
         THEN [kind |-> "await", body |-> Substring(token.text, 1, Len(token.text))]
         ELSE [kind |-> "code", body |-> token.text]
    ELSE [kind |-> "literal", body |-> escapeString(token.text)]

\* compile: the statements of the program between prologue and epilogue.
compile(input_, openTag, closeTag) ==
    LET tokens == tokenize(input_, openTag, closeTag)
    IN [i \in 1..Len(tokens) |-> TokenLine(tokens[i])]

\* The value of the JavaScript string literal with the given body: an escape
\* gives its character, and a quote, a line feed or a carriage return that is
\* not escaped ends the literal too early, a syntax error.
RECURSIVE StringValue(_)
StringValue(body) ==
    IF body = <<>> THEN [ok |-> TRUE, value |-> <<>>]
    ELSE IF Head(body) \in {Quote, LineFeed, CarriageReturn} THEN [ok |-> FALSE, value |-> <<>>]
    ELSE IF Head(body) = Backslash
    THEN IF Len(body) = 1 THEN [ok |-> FALSE, value |-> <<>>]
         ELSE LET c == body[2]
                  rest == StringValue(SubSeq(body, 3, Len(body)))
                  v == CASE c = "n" -> <<LineFeed>>
                         [] c = "r" -> <<CarriageReturn>>
                         [] c \in {LineFeed, CarriageReturn} -> <<>>
                         [] OTHER -> <<c>>
              IN [ok |-> rest.ok, value |-> v \o rest.value]
    ELSE LET rest == StringValue(Tail(body))
         IN [ok |-> rest.ok, value |-> <<Head(body)>> \o rest.value]

\* interpret for a program of literal statements: let __out = "", one
\* __out += "..." a statement, return __out.
RECURSIVE interpret(_)
interpret(program) ==
    IF program = <<>> THEN [ok |-> TRUE, value |-> <<>>]
    ELSE LET v == StringValue(Head(program).body)
             rest == interpret(Tail(program))
         IN [ok |-> v.ok /\ rest.ok, value |-> v.value \o rest.value]

TextInputs ==
    {Concat(ps) : ps \in UNION {[1..n -> Pieces] : n \in 0..MaxPieces}}

TextInit ==
    /\ textInput \in TextInputs
    /\ textPhase = "input"
    /\ textTokens = <<>>
    /\ textOutput = <<>>
    /\ PassIdle /\ RenderIdle /\ MetaIdle /\ EvalIdle /\ FileIdle /\ ArgsIdle /\ PipeIdle /\ WatchIdle

\* tokenize(input, "<%", "%>").
Tokenize ==
    /\ textPhase = "input"
    /\ textTokens' = tokenize(textInput, OpenTag, CloseTag)
    /\ textPhase' = "tokenized"
    /\ UNCHANGED <<textInput, textOutput, offText>>

\* interpret(compile(input, "<%", "%>"), context) for a text whose tokens are
\* all content tokens.
Evaluate ==
    /\ textPhase = "tokenized"
    /\ \A i \in 1..Len(textTokens) : textTokens[i].type = "content"
    /\ LET r == interpret(compile(textInput, OpenTag, CloseTag))
       IN /\ textPhase' = IF r.ok THEN "evaluated" ELSE "failed"
          /\ textOutput' = r.value
    /\ UNCHANGED <<textInput, textTokens, offText>>

TextNext == Tokenize \/ Evaluate

TextSpec == TextInit /\ [][TextNext]_textVars

\* ========================================================= the program's run
\* The tokens of the templates that are run: a literal, two expression
\* regions whose values are promises, a statement, a statement in
\* parentheses, and the two ends of a loop.
ForText == <<"f", "o", "r", "{">>
EndText == <<"}">>
EvalTokens ==
    {[type |-> "content", text |-> <<"L">>],
     [type |-> "expression", text |-> <<"=", "a">>],
     [type |-> "expression", text |-> <<"=", "b">>],
     [type |-> "expression", text |-> <<"s", ";">>],
     [type |-> "expression", text |-> <<"(", "s", ")", ";">>],
     [type |-> "expression", text |-> ForText],
     [type |-> "expression", text |-> EndText]}
Promises == {<<"a">>, <<"b">>}

\* compile's loop (lines 37-47) over given tokens.
Program(tokens) == [i \in 1..Len(tokens) |-> TokenLine(tokens[i])]

\* Line 40 emits __out += await (...) with no semicolon after it, so the
\* statement goes on in the next line when that line starts with ( or [.
GoesOn(line) == line.kind = "await"
Continues(line) == line.kind = "code" /\ line.body # <<>> /\ line.body[1] \in {"(", "["}

\* The statement of line i is joined with line i + 1.
Joined(lines, i) == i < Len(lines) /\ GoesOn(lines[i]) /\ Continues(lines[i + 1])

\* new Function(program): the statements of the program text.  tok is the
\* token a statement comes from, arg the token joined to it as a call's
\* arguments.
RECURSIVE StatementsFrom(_, _)
StatementsFrom(lines, i) ==
    IF i > Len(lines) THEN <<>>
    ELSE IF Joined(lines, i)
    THEN <<[op |-> "call", tok |-> i, body |-> lines[i].body, arg |-> i + 1]>>
         \o StatementsFrom(lines, i + 2)
    ELSE <<[op |-> CASE lines[i].kind = "await" -> "await"
                     [] lines[i].kind = "literal" -> "literal"
                     [] lines[i].body = ForText -> "for"
                     [] lines[i].body = EndText -> "end"
                     [] OTHER -> "run",
            tok |-> i, body |-> lines[i].body, arg |-> 0]>>
         \o StatementsFrom(lines, i + 1)

Statements(tokens) == StatementsFrom(Program(tokens), 1)

\* The braces of the program match: new Function throws a SyntaxError if not.
RECURSIVE Balanced(_, _)
Balanced(stmts, depth) ==
    IF stmts = <<>> THEN depth = 0
    ELSE IF Head(stmts).op = "for" THEN Balanced(Tail(stmts), depth + 1)
    ELSE IF Head(stmts).op = "end" THEN depth > 0 /\ Balanced(Tail(stmts), depth - 1)
    ELSE Balanced(Tail(stmts), depth)

EvalInputs == UNION {[1..n -> EvalTokens] : n \in 0..MaxTokens}

EvalInit ==
    /\ evTokens \in EvalInputs
    /\ evPhase = "ready"
    /\ evPc = 0
    /\ evOut = <<>>
    /\ evLoops = <<>>
    /\ evWait = NoWait
    /\ evSettled = <<>>
    /\ evTrace = <<>>
    /\ PassIdle /\ RenderIdle /\ MetaIdle /\ TextIdle /\ FileIdle /\ ArgsIdle /\ PipeIdle /\ WatchIdle

Settled == {evSettled[i] : i \in 1..Len(evSettled)}
Stmt == Statements(evTokens)[evPc]
At(op) == evPhase = "running" /\ evPc <= Len(Statements(evTokens)) /\ Stmt.op = op
Did(op, tok) == evTrace' = Append(evTrace, [op |-> op, tok |-> tok])

\* interpret: new Function(...) and the call of the async function up to its
\* first statement.
Interpret_ ==
    /\ evPhase = "ready"
    /\ IF Balanced(Statements(evTokens), 0)
       THEN evPhase' = "running" /\ evPc' = 1
       ELSE evPhase' = "error" /\ evPc' = 0
    /\ UNCHANGED <<evTokens, evOut, evLoops, evWait, evSettled, evTrace, offEval>>

\* __out += "...";
AppendLiteral ==
    /\ At("literal")
    /\ evOut' = evOut \o StringValue(Stmt.body).value
    /\ Did("append", Stmt.tok)
    /\ evPc' = evPc + 1
    /\ UNCHANGED <<evTokens, evPhase, evLoops, evWait, evSettled, offEval>>

\* __out += await (e): __out is read, e is evaluated, the function waits.
BeginAwait ==
    /\ At("await")
    /\ evWait' = [on |-> Stmt.body, held |-> evOut]
    /\ evPhase' = "waiting"
    /\ UNCHANGED <<evTokens, evPc, evOut, evLoops, evSettled, evTrace, offEval>>

\* The promise waited for has resolved: the sum is assigned to __out.
Resume ==
    /\ evPhase = "waiting"
    /\ evWait.on \in Settled
    /\ evOut' = evWait.held \o evWait.on
    /\ Did("append", Stmt.tok)
    /\ evWait' = NoWait
    /\ evPhase' = "running"
    /\ evPc' = evPc + 1
    /\ UNCHANGED <<evTokens, evLoops, evSettled, offEval>>

\* A statement region of the author.
RunCode ==
    /\ At("run")
    /\ Did("run", Stmt.tok)
    /\ evPc' = evPc + 1
    /\ UNCHANGED <<evTokens, evPhase, evOut, evLoops, evWait, evSettled, offEval>>

\* The ends of the author's loop.
Loop ==
    /\ At("for") \/ At("end")
    /\ IF Stmt.op = "for"
       THEN /\ evLoops' = Append(evLoops, [start |-> evPc + 1, left |-> LoopIterations])
            /\ evPc' = evPc + 1
       ELSE LET top == evLoops[Len(evLoops)]
            IN IF top.left > 1
               THEN /\ evLoops' = [evLoops EXCEPT ![Len(evLoops)].left = @ - 1]
                    /\ evPc' = top.start
               ELSE /\ evLoops' = SubSeq(evLoops, 1, Len(evLoops) - 1)
                    /\ evPc' = evPc + 1
    /\ UNCHANGED <<evTokens, evPhase, evOut, evWait, evSettled, evTrace, offEval>>

\* __out += await (e)(args): the arguments, the next region's statement, are
\* evaluated, then the call of e, a promise, throws a TypeError.
CallJoined ==
    /\ At("call")
    /\ Did("run", Stmt.arg)
    /\ evPhase' = "error"
    /\ UNCHANGED <<evTokens, evPc, evOut, evLoops, evWait, evSettled, offEval>>

\* return __out.
Finish ==
    /\ evPhase = "running" /\ evPc > Len(Statements(evTokens))
    /\ evPhase' = "done"
    /\ UNCHANGED <<evTokens, evPc, evOut, evLoops, evWait, evSettled, evTrace, offEval>>

\* A promise resolves, at any time.
Settle ==
    /\ evPhase \in {"ready", "running", "waiting"}
    /\ \E q \in Promises \ Settled : evSettled' = Append(evSettled, q)
    /\ UNCHANGED <<evTokens, evPhase, evPc, evOut, evLoops, evWait, evTrace, offEval>>

EvalNext ==
    \/ Interpret_ \/ AppendLiteral \/ BeginAwait \/ Resume \/ RunCode \/ Loop
    \/ CallJoined \/ Finish \/ Settle

EvalSpec == EvalInit /\ [][EvalNext]_evalVars

\* ============================================================ one file item
\* File names of every kind of extension: the six of defaultConfig, upper
\* case, none, another, and an ignored name.
FileNames ==
    { nMd, nHtml, nPng, nIgn,
      <<"A", ".", "M", "D">>,
      <<"x", ".", "c", "s", "s">>,
      <<"x", ".", "j", "s">>,
      <<"x", ".", "j", "s", "o", "n">>,
      <<"x", ".", "t", "x", "t">>,
      <<"x">> }

\* The modification times of the two files.
FileTimes == 0..MaxPasses

FileInit ==
    /\ fileName \in FileNames
    /\ fileInStat \in {FileEntry(Raw("tpl"), t) : t \in FileTimes}
    /\ fileOutStat \in {NoEntry} \cup {FileEntry(Raw("old"), t) : t \in FileTimes}
    /\ fileOp = "none"
    /\ fileBytes = NoContent
    /\ PassIdle /\ RenderIdle /\ MetaIdle /\ TextIdle /\ EvalIdle /\ ArgsIdle /\ PipeIdle /\ WatchIdle

\* Lines 160-187 for the item: the branch it takes and the content written to
\* the output (the pipeline's result for a transformed file, the bytes read
\* for a copied one).
ProcessItem ==
    /\ fileOp = "none"
    /\ LET item == [name |-> fileName, kind |-> "file"]
           branch == IF ItemBranch(item) = "file"
                     THEN FileBranch(fileName, fileInStat, fileOutStat)
                     ELSE "skip"
           ctx == [inputPath |-> <<fileName>>, content |-> fileInStat.content,
                   outputPath |-> <<fileName>>]
           tree == [EmptyTree EXCEPT ![Root] = DirEntry(0)]
       IN /\ fileOp' = branch
          /\ fileBytes' = CASE branch = "transform" -> Transform(FALSE, ctx, tree, 0).output
                            [] branch = "copy" -> fileInStat.content
                            [] OTHER -> NoContent
    /\ UNCHANGED <<fileName, fileInStat, fileOutStat>>
    /\ UNCHANGED offFile

FileNext == ProcessItem

FileSpec == FileInit /\ [][FileNext]_fileVars

\* ================================================================ parseArgs
\* The words of an argument list: options, a path and a number.
wIn == <<"-", "-", "i", "n">>
wOut == <<"-", "-", "o", "u", "t">>
wWatch == <<"-", "-", "w", "a", "t", "c", "h">>
wDebug == <<"-", "-", "d", "e", "b", "u", "g">>
wServe == <<"-", "-", "s", "e", "r", "v", "e">>
wVersion == <<"-", "-", "v", "e", "r", "s", "i", "o", "n">>
wExtension == <<"-", "-", "e", "x", "t", "e", "n", "s", "i", "o", "n">>
wPath == <<"p">>
wPort == <<"8", "0">>
Options == {wIn, wOut, wWatch, wDebug, wServe, wVersion, wExtension}
ArgWords == Options \cup {wPath, wPort}

\* Line 111.
NoValueArgs == {wWatch, wDebug, wVersion}
\* arg.startsWith("--")
IsOptionName(arg) == StartsWith(arg, <<"-", "-">>)
\* /^\d+$/.test(port), on the string the value converts to.
Digits == {"0", "1", "2", "3", "4", "5", "6", "7", "8", "9"}
IsNumber(str) == Len(str) > 0 /\ \A i \in 1..Len(str) : str[i] \in Digits

\* A value of the Map: absent, or a string, or the number 8080 of line 121.
Absent == [has |-> FALSE, str |-> <<>>]
Value(str) == [has |-> TRUE, str |-> str]
DefaultPort == <<"8", "0", "8", "0">>
NoArgs == [o \in Options |-> Absent]
MapSize(m) == Cardinality({o \in Options : m[o].has})
NoConfig == [inputPath |-> <<>>, outputPath |-> <<>>, watch |-> FALSE, serve |-> FALSE,
             servePort |-> Absent, debug |-> FALSE, extensions |-> <<>>]

ArgLists == UNION {[1..n -> ArgWords] : n \in 0..MaxArgs}

ArgsInit ==
    /\ argv \in ArgLists
    /\ argI = 1
    /\ args = NoArgs
    /\ argPhase = "loop"
    /\ argConfig = NoConfig
    /\ argIter = 0
    /\ PassIdle /\ RenderIdle /\ MetaIdle /\ TextIdle /\ EvalIdle /\ FileIdle /\ PipeIdle /\ WatchIdle

\* Lines 113-129: one iteration of the loop.
ParseArg ==
    /\ argPhase = "loop"
    /\ argI <= Len(argv)
    /\ argIter < MaxIterations
    /\ argIter' = argIter + 1
    /\ LET arg == argv[argI]
           last_ == argI = Len(argv)
       IN IF ~IsOptionName(arg)
          THEN argPhase' = "thrown" /\ UNCHANGED <<argI, args>>
          ELSE IF arg \in NoValueArgs
          THEN /\ args' = [args EXCEPT ![arg] = Value(<<>>)]
               /\ argI' = argI + 1
               /\ UNCHANGED argPhase
          ELSE IF arg = wServe /\ (last_ \/ IsOptionName(argv[argI + 1]))
          THEN /\ args' = [args EXCEPT ![arg] = Value(DefaultPort)]
               /\ UNCHANGED <<argI, argPhase>>
          ELSE IF last_
          THEN argPhase' = "thrown" /\ UNCHANGED <<argI, args>>
          ELSE /\ args' = [args EXCEPT ![arg] = Value(argv[argI + 1])]
               /\ argI' = argI + 2
               /\ UNCHANGED argPhase
    /\ UNCHANGED <<argv, argConfig>>
    /\ UNCHANGED offArgs

\* Lines 131-168: after the loop.
ReturnConfig ==
    /\ argPhase = "loop"
    /\ argI > Len(argv)
    /\ IF args[wVersion].has /\ MapSize(args) = 1
       THEN argPhase' = "exited" /\ UNCHANGED argConfig
       ELSE IF ~args[wIn].has \/ ~args[wOut].has
       THEN argPhase' = "thrown" /\ UNCHANGED argConfig
       ELSE IF args[wServe].has /\ ~IsNumber(args[wServe].str)
       THEN argPhase' = "thrown" /\ UNCHANGED argConfig
       ELSE /\ argPhase' = "returned"
            /\ argConfig' = [inputPath |-> args[wIn].str,
                             outputPath |-> args[wOut].str,
                             watch |-> args[wWatch].has,
                             serve |-> args[wServe].has,
                             servePort |-> args[wServe],
                             debug |-> args[wDebug].has,
                             extensions |-> IF args[wExtension].has
                                            THEN <<args[wExtension].str>> ELSE <<>>]
    /\ UNCHANGED <<argv, argI, args, argIter>>
    /\ UNCHANGED offArgs

ArgsNext == ParseArg \/ ReturnConfig

ArgsSpec == ArgsInit /\ [][ArgsNext]_argVars

\* ====================================================== the phases of transform
\* A context extender sets one key of the Context to its value, or throws.
ExtKeys == {"k", "j"}
Extender(id, key, val) == [id |-> id, key |-> key, val |-> val, throws |-> FALSE]
ExtenderPool ==
    { Extender("e1", "k", "1"), Extender("e2", "k", "2"), Extender("e3", "j", "3"),
      [id |-> "e4", key |-> "k", val |-> "", throws |-> TRUE] }
\* A transformer returns the output it receives with its mark appended, or throws.
TransformerPool ==
    { [id |-> "t1", mark |-> "x", throws |-> FALSE],
      [id |-> "t2", mark |-> "y", throws |-> FALSE],
      [id |-> "t3", mark |-> "", throws |-> TRUE] }

\* The templates: <%= k %><%= j %>, and one whose code throws.
PipeTemplates == {"kj", "boom"}
\* The Context at the call: that of a root file (no key of an extender set), or
\* that of an include, which holds what the extenders set for the caller.
RootKeys == [k \in ExtKeys |-> ""]
IncludeKeys == [k \in ExtKeys |-> "0"]

Phase(op, who) == [op |-> op, who |-> who]

\* Mutant: the loop runs over the list from its end.
ExtenderAt_Reversed(list, i) == list[Len(list) + 1 - i]
\* The extender the loop of lines 115-117 calls in its i-th iteration.
ExtenderAt(list, i) == list[i]
\* The transformer the loop of lines 119-121 calls in its i-th iteration.
TransformerAt(list, i) == list[i]

PipeInit ==
    /\ contextExtenders \in UNION {[1..n -> ExtenderPool] : n \in 0..MaxExtenders}
    /\ transformers \in UNION {[1..n -> TransformerPool] : n \in 0..MaxTransformers}
    /\ tDebug \in BOOLEAN
    /\ tContext \in {RootKeys, IncludeKeys}
    /\ tContent \in PipeTemplates
    /\ tPhase = "called"
    /\ tIndex = 0
    /\ tOutput = <<>>
    /\ tTrace = <<>>
    /\ PassIdle /\ RenderIdle /\ MetaIdle /\ TextIdle /\ EvalIdle /\ FileIdle /\ ArgsIdle /\ WatchIdle

\* Lines 107-113: compile, and the debug artifact when config.debug.
RunCompile ==
    /\ tPhase = "called"
    /\ tTrace' = IF tDebug THEN <<Phase("compile", ""), Phase("debug", "")>>
                 ELSE <<Phase("compile", "")>>
    /\ tPhase' = "extend"
    /\ tIndex' = 1
    /\ UNCHANGED <<contextExtenders, transformers, tDebug, tContext, tContent, tOutput>>
    /\ UNCHANGED offPipe

\* Lines 115-117: one iteration of the loop over the extenders.
RunExtender ==
    /\ tPhase = "extend"
    /\ tIndex <= Len(contextExtenders)
    /\ LET extender == ExtenderAt(contextExtenders, tIndex)
       IN /\ tTrace' = Append(tTrace, Phase("extender", extender.id))
          /\ IF extender.throws
             THEN tPhase' = "thrown" /\ UNCHANGED <<tContext, tIndex>>
             ELSE /\ tContext' = [tContext EXCEPT ![extender.key] = extender.val]
                  /\ tIndex' = tIndex + 1
                  /\ UNCHANGED tPhase
    /\ UNCHANGED <<contextExtenders, transformers, tDebug, tContent, tOutput>>
    /\ UNCHANGED offPipe

\* Line 118: await interpret(program, context): the template's output is made
\* of the values its expressions read from the Context.
RunInterpret ==
    /\ tPhase = "extend"
    /\ tIndex > Len(contextExtenders)
    /\ tTrace' = Append(tTrace, Phase("interpret", ""))
    /\ IF tContent = "boom"
       THEN tPhase' = "thrown" /\ UNCHANGED <<tOutput, tIndex>>
       ELSE /\ tOutput' = <<tContext["k"], tContext["j"]>>
            /\ tPhase' = "transform"
            /\ tIndex' = 1
    /\ UNCHANGED <<contextExtenders, transformers, tDebug, tContext, tContent>>
    /\ UNCHANGED offPipe

\* Lines 119-121: one iteration of the loop over the transformers.
RunTransformer ==
    /\ tPhase = "transform"
    /\ tIndex <= Len(transformers)
    /\ LET transformer == TransformerAt(transformers, tIndex)
       IN /\ tTrace' = Append(tTrace, Phase("transformer", transformer.id))
          /\ IF transformer.throws
             THEN tPhase' = "thrown" /\ UNCHANGED <<tOutput, tIndex>>
             ELSE /\ tOutput' = Append(tOutput, transformer.mark)
                  /\ tIndex' = tIndex + 1
                  /\ UNCHANGED tPhase
    /\ UNCHANGED <<contextExtenders, transformers, tDebug, tContext, tContent>>
    /\ UNCHANGED offPipe

\* Line 123: return output.
RunReturn ==
    /\ tPhase = "transform"
    /\ tIndex > Len(transformers)
    /\ tPhase' = "returned"
    /\ UNCHANGED <<contextExtenders, transformers, tDebug, tContext, tContent, tIndex,
                   tOutput, tTrace>>
    /\ UNCHANGED offPipe

PipeNext == RunCompile \/ RunExtender \/ RunInterpret \/ RunTransformer \/ RunReturn

PipeSpec == PipeInit /\ [][PipeNext]_pipeVars

\* ========================================================= overlapping passes
\* The templates of this part: "tpl" evaluates without suspending, "wait"
\* awaits a promise that settles in a later turn of the event loop, "feedSub"
\* calls rss("d/e.txt", ...), "feedHere" calls rss("e.txt", ...).
FeedTargets == [feedSub |-> <<nDir, nTxt>>, feedHere |-> <<nTxt>>]
FeedXml == [txt |-> "rss", form |-> "xml"]

TreeOf(entries) ==
    [p \in Paths |->
        IF p = Root THEN DirEntry(0)
        ELSE IF \E e \in entries : e[1] = p
        THEN LET e == CHOOSE x \in entries : x[1] = p
             IN IF e[2] = "dir" THEN DirEntry(0) ELSE FileEntry(Raw(e[2]), 0)
        ELSE NoEntry]

\* The input trees.
WatchInputs ==
    { TreeOf({<<(<<nDir>>), "dir">>, <<(<<nDir, nHtml>>), "wait">>}),
      TreeOf({<<(<<nHtml>>), "wait">>, <<(<<nPng>>), "bin">>, <<(<<nDir>>), "dir">>,
              <<(<<nDir, nHtml>>), "wait">>, <<(<<nTxt>>), "tpl">>}),
      TreeOf({<<(<<nMd>>), "wait">>, <<(<<nIgn>>), "bin">>}),
      TreeOf({<<(<<nHtml>>), "feedSub">>, <<(<<nDir>>), "dir">>, <<(<<nDir, nHtml>>), "tpl">>}),
      TreeOf({<<(<<nDir>>), "dir">>, <<(<<nDir, nHtml>>), "tpl">>, <<(<<nTxt>>), "feedSub">>}),
      TreeOf({<<(<<nHtml>>), "feedHere">>}),
      TreeOf({<<(<<nDir>>), "dir">>, <<(<<nDir, nMd>>), "wait">>, <<(<<nTxt>>), "wait">>}) }
\* The output trees blargh may find: none, or the directory d of an earlier run.
WatchOutputs == {EmptyTree, TreeOf({<<(<<nDir>>), "dir">>})}

NoPass == [status |-> "running", stack |-> <<>>, pending |-> {}, log |-> <<>>,
           overlapped |-> FALSE]
InProgress(pass) == pass.status \in {"running", "suspended"}
Ended(pass) == pass.status \in {"done", "failed"}
\* The pass whose code the event loop is executing, when there is one.
HasActive == \E i \in 1..Len(wPasses) : wPasses[i].status = "running"
Active == CHOOSE i \in 1..Len(wPasses) : wPasses[i].status = "running"
WTop == wPasses[Active].stack[Len(wPasses[Active].stack)]
WItem == WTop.items[1]
WPath == Join(WTop.dir, WItem.name)
WFrame(dir) == [dir |-> dir, items |-> InputItems(wInput, dir)]
Logged(pass, op, p) == [pass EXCEPT !.log = Append(@, [op |-> op, path |-> p])]
Failed(pass, p) == [Logged(pass, "fail", p) EXCEPT !.status = "failed"]
Popped(pass) == [pass EXCEPT !.stack = PopItem(@)]
WithActive(pass) == [wPasses EXCEPT ![Active] = pass]

\* Mutant: the callback is not awaited, the loop goes on to the next item
\* while the file's pipeline is pending.
Suspend_FanOut(pass, pipeline) ==
    Popped([pass EXCEPT !.pending = @ \cup {pipeline}])

\* Line 179, `content = await callback(config, context)`, when the callback's
\* promise is pending: traverseAndProcess is suspended in this iteration.
Suspend(pass, pipeline) ==
    [pass EXCEPT !.status = "suspended", !.pending = {pipeline}]

\* Mutant: a change notification cancels the passes in progress.
OnChange_Cancel(passes) ==
    [i \in 1..Len(passes) |->
        IF passes[i].status = "suspended"
        THEN [passes[i] EXCEPT !.status = "cancelled", !.pending = {}]
        ELSE passes[i]]

\* Lines 232-237: what the fs.watch callback does to the passes in progress
\* before it calls processFiles: nothing.
OnChange(passes) == passes

\* processFiles up to the first item of the root: lines 192-195 and 133-148.
Started(out) ==
    LET out1 == IF Exists(out, Root) THEN out ELSE [out EXCEPT ![Root] = DirEntry(1)]
    IN DeleteStale(wInput, out1, Root, 1)

\* Lines 119-123 and 180: the transformers, then the write of the result to
\* context.outputPath; the pass goes on with the next item, or fails.
Completion(pass, out, pipeline) ==
    LET tr == MarkdownTransformer(pipeline.ctx, pipeline.output)
        target == FinalWritePath(pipeline.ctx, tr.ctx)
        rest == [pass EXCEPT !.pending = @ \ {pipeline}]
        on == IF pass.status = "suspended"
              THEN Popped([rest EXCEPT !.status = "running"]) ELSE rest
    IN IF CanWrite(out, target)
       THEN [out |-> WriteFile(out, target, tr.output, 1),
             pass |-> Logged(IF pass.status = "running" THEN Popped(rest) ELSE on,
                             "write", pipeline.ctx.inputPath)]
       ELSE [out |-> out, pass |-> Failed(rest, pipeline.ctx.inputPath)]

WatchInit ==
    /\ wInput \in WatchInputs
    /\ wOutput \in WatchOutputs
    /\ wPasses = <<>>
    /\ wSingle = EmptyTree
    /\ PassIdle /\ RenderIdle /\ MetaIdle /\ TextIdle /\ EvalIdle /\ FileIdle /\ ArgsIdle /\ PipeIdle

\* Line 228: blargh's own call of processFiles.
WStartFirst ==
    /\ wPasses = <<>>
    /\ wOutput' = Started(wOutput)
    /\ wPasses' = <<[NoPass EXCEPT !.stack = <<WFrame(Root)>>]>>
    /\ UNCHANGED <<wInput, wSingle>>
    /\ UNCHANGED offWatch

\* Lines 231-237: the watcher is registered when the first pass has ended; a
\* change notification calls processFiles at once, whatever passes are in
\* progress.  It is delivered in a turn of the event loop of its own, so no
\* pass is executing code then.
WNotify ==
    /\ wPasses # <<>> /\ Ended(wPasses[1])
    /\ ~HasActive
    /\ Len(wPasses) < MaxWatchPasses
    /\ LET over == \E i \in 1..Len(wPasses) : InProgress(wPasses[i])
           before == [i \in 1..Len(wPasses) |->
                         IF InProgress(wPasses[i])
                         THEN [OnChange(wPasses)[i] EXCEPT !.overlapped = TRUE]
                         ELSE OnChange(wPasses)[i]]
       IN wPasses' = Append(before, [NoPass EXCEPT !.stack = <<WFrame(Root)>>,
                                                   !.overlapped = over])
    /\ wOutput' = Started(wOutput)
    /\ UNCHANGED <<wInput, wSingle>>
    /\ UNCHANGED offWatch

WRunning == HasActive /\ wPasses[Active].stack # <<>>

\* Lines 155-159 and 133-148: a directory item.
WVisitDir ==
    /\ WRunning /\ WTop.items # <<>>
    /\ ItemBranch(WItem) = "dir"
    /\ LET p == WPath
           pass == wPasses[Active]
           out1 == IF Exists(wOutput, p) THEN wOutput ELSE MkDir(wOutput, p, 1)
       IN IF IsDir(out1, p)
          THEN /\ wOutput' = DeleteStale(wInput, out1, p, 1)
               /\ wPasses' = WithActive(
                      [Logged(pass, "enter", p) EXCEPT !.stack = Append(PopItem(@), WFrame(p))])
          ELSE /\ wOutput' = out1
               /\ wPasses' = WithActive(Failed(pass, p))
    /\ UNCHANGED <<wInput, wSingle>>
    /\ UNCHANGED offWatch

\* Lines 175-180 up to the await's suspension: read, compile, the extenders,
\* the template's evaluation with its rss call, and, when nothing suspends,
\* the transformers and the write.
WTransformFile ==
    /\ WRunning /\ WTop.items # <<>>
    /\ ItemBranch(WItem) = "file"
    /\ FileBranch(WItem.name, wInput[WPath], wOutput[WPath]) = "transform"
    /\ LET p == WPath
           content == wInput[p].content
           ctx == [inputPath |-> p, content |-> content, outputPath |-> p]
           pass == Logged(wPasses[Active], "begin", p)
           feeds == content.txt \in DOMAIN FeedTargets
           feedPath == Resolve(Parent(ctx.outputPath), FeedTargets[content.txt])
           pipeline == [ctx |-> ctx, output |-> Interpret(Compile(content)).output]
       IN IF feeds /\ ~CanWrite(wOutput, feedPath)
          THEN /\ wPasses' = WithActive(Failed(pass, p))
               /\ UNCHANGED wOutput
          ELSE LET out1 == IF feeds THEN WriteFile(wOutput, feedPath, FeedXml, 1)
                           ELSE wOutput
                   pass1 == IF feeds THEN Logged(pass, "rss", feedPath) ELSE pass
               IN IF content.txt = "wait"
                  THEN /\ wPasses' = WithActive(Suspend(pass1, pipeline))
                       /\ wOutput' = out1
                  ELSE LET c == Completion(pass1, out1, pipeline)
                       IN /\ wPasses' = WithActive(c.pass)
                          /\ wOutput' = c.out
    /\ UNCHANGED <<wInput, wSingle>>
    /\ UNCHANGED offWatch

\* The awaited promise of a suspended pipeline settles: the rest of transform
\* and line 180.  No other pass is executing code then.
WResume ==
    /\ ~HasActive
    /\ \E i \in 1..Len(wPasses) : \E pipeline \in wPasses[i].pending :
        LET c == Completion(wPasses[i], wOutput, pipeline)
        IN /\ wPasses' = [wPasses EXCEPT ![i] = c.pass]
           /\ wOutput' = c.out
    /\ UNCHANGED <<wInput, wSingle>>
    /\ UNCHANGED offWatch

\* Lines 181-187: a static file.
WCopyFile ==
    /\ WRunning /\ WTop.items # <<>>
    /\ ItemBranch(WItem) = "file"
    /\ FileBranch(WItem.name, wInput[WPath], wOutput[WPath]) # "transform"
    /\ LET p == WPath
           pass == wPasses[Active]
           copy == FileBranch(WItem.name, wInput[p], wOutput[p]) = "copy"
       IN IF ~copy
          THEN /\ wPasses' = WithActive(Popped(Logged(pass, "static", p)))
               /\ UNCHANGED wOutput
          ELSE IF CanWrite(wOutput, p)
          THEN /\ wOutput' = WriteFile(wOutput, p, wInput[p].content, 1)
               /\ wPasses' = WithActive(Popped(Logged(pass, "static", p)))
          ELSE /\ wPasses' = WithActive(Failed(pass, p))
               /\ UNCHANGED wOutput
    /\ UNCHANGED <<wInput, wSingle>>
    /\ UNCHANGED offWatch

\* Lines 155 and 160: an ignored item.
WSkipItem ==
    /\ WRunning /\ WTop.items # <<>>
    /\ ItemBranch(WItem) = "skip"
    /\ wPasses' = WithActive(Popped(wPasses[Active]))
    /\ UNCHANGED <<wInput, wOutput, wSingle>>
    /\ UNCHANGED offWatch

\* Line 159: the traversal of a subdirectory returns.
WLeaveDir ==
    /\ WRunning /\ WTop.items = <<>> /\ Len(wPasses[Active].stack) > 1
    /\ LET pass == wPasses[Active]
       IN wPasses' = WithActive(
              [Logged(pass, "leave", WTop.dir) EXCEPT !.stack = SubSeq(@, 1, Len(@) - 1)])
    /\ UNCHANGED <<wInput, wOutput, wSingle>>
    /\ UNCHANGED offWatch

\* Lines 195-210 as the passes see them: the traversal of the root has
\* returned and processFiles returns.
PassEnds ==
    /\ WRunning /\ WTop.items = <<>> /\ Len(wPasses[Active].stack) = 1
    /\ wPasses' = WithActive([wPasses[Active] EXCEPT !.status = "done", !.stack = <<>>])

\* Lines 195-210: the traversal of the root returns; deleteEmptyDirs.
WFinishPass ==
    /\ PassEnds
    /\ wOutput' = DeleteEmptyDirs(wOutput, Root, 1)
    /\ wSingle' = IF Active = 1 THEN wOutput' ELSE wSingle
    /\ UNCHANGED wInput
    /\ UNCHANGED offWatch

\* The steps of a traversal, and the settling of an awaited promise.
WProgress ==
    \/ WVisitDir \/ WTransformFile \/ WResume \/ WCopyFile \/ WSkipItem
    \/ WLeaveDir

WatchNext == WStartFirst \/ WNotify \/ WProgress \/ WFinishPass

WatchSpec == WatchInit /\ [][WatchNext]_watchVars

\* The event loop runs every callback that is ready, and the promises the
\* templates await settle: blargh's call is made, a traversal that can take a
\* step takes it, a pipeline that is pending is resumed, and a traversal that
\* has returned ends its pass (the steps that satisfy PassEnds are those of
\* WFinishPass).
WatchFairSpec ==
    /\ WatchSpec
    /\ WF_watchVars(WStartFirst)
    /\ WF_watchVars(WProgress)
    /\ WF_wPasses(PassEnds)

\* ================================================================== claims
\* A pass has completed and the input tree is as the pass saw it.
Completed == status = "done" /\ ~edited
\* No name on the path starts with "_".
NotIgnored(p) == \A i \in 1..Len(p) : ~StartsWith(p[i], <<"_">>)
\* The input entries a pass mirrors.
SyncedInput == {p \in Paths \ {Root} : Exists(input, p) /\ NotIgnored(p)}
SyncedFiles == {p \in SyncedInput : IsFile(input, p)}
\* The file types of the model that the pipeline transforms.
Transformable(p) == BaseName(p) \in {nMd, nHtml}
\* The output path of an input file after the pipeline: a.md gives a.html.
Counterpart(p) == IF BaseName(p) = nMd THEN Join(Parent(p), nHtml) ELSE p
\* The content the pipeline returns for an input file.
Rendered(p) == [txt |-> input[p].content.txt,
                form |-> IF BaseName(p) = nMd THEN "html" ELSE "evaluated"]
\* A static input file whose output path held a directory when the pass began.
Shadowed(p) == IsFile(input, p) /\ ~Transformable(p) /\ IsDir(prior, p)
\* The same paths, kinds and contents (modification times apart).
SameTree(t1, t2) ==
    \A p \in Paths : t1[p].kind = t2[p].kind /\ t1[p].content = t2[p].content

\* C1 as stated: after a completed pass every non-ignored input file and
\* directory, an empty directory included, has its counterpart in the output.
\* (Stated for the passes in which no static file met a directory at its
\* output path, so that what refutes it is not that other defect.)
C1_AsStated ==
    (Completed /\ \A f \in SyncedFiles : ~Shadowed(f)) =>
        \A p \in SyncedInput :
            /\ IsDir(input, p) => IsDir(output, p)
            /\ IsFile(input, p) => IsFile(output, Counterpart(p))

\* C1, amended: after a completed pass every non-ignored input file has the
\* file at its post-pipeline output path, and every non-ignored input directory
\* that holds such a file at some depth has its directory (a directory that
\* holds none need not have one: deleteEmptyDirs prunes it).  The exception is
\* a static file whose output path held a directory before the pass: the
\* directory is left in its place, or pruned when empty.
C1_Counterparts ==
    Completed =>
        /\ \A p \in SyncedFiles : ~Shadowed(p) => IsFile(output, Counterpart(p))
        /\ \A p \in SyncedInput :
              (IsDir(input, p) /\ \E f \in SyncedFiles : IsPrefix(p, f) /\ ~Shadowed(f))
                  => IsDir(output, p)
        /\ \A p \in SyncedFiles : Shadowed(p) => ~IsFile(output, p)

\* C1 witness: a nested file and its directory were mirrored, a.md as a.html.
C1_Witness ==
    /\ Completed
    /\ ~Exists(prior, <<nDir>>)
    /\ IsFile(input, <<nDir, nMd>>)
    /\ IsFile(output, <<nDir, nHtml>>)
    /\ IsDir(output, <<nDir>>)

IsCounterpart(q) ==
    \E p \in SyncedInput :
        \/ IsDir(input, p) /\ q = p /\ IsDir(output, q)
        \/ IsFile(input, p) /\ q = Counterpart(p) /\ IsFile(output, q)
IsDebugArtifact(q) ==
    /\ debug
    /\ \E p \in SyncedFiles :
          Transformable(p) /\ q = Join(Parent(p), BaseName(p) \o DebugSuffix)
\* q was in the output before the pass, at or below a name that the mirrored
\* input directory holds as an ignored entry or as a file.
IsSurvivor(q) ==
    /\ output[q] = prior[q]
    /\ \E i \in 1..Len(q) :
          LET r == SubSeq(q, 1, i)
          IN /\ Exists(input, r)
             /\ NotIgnored(Parent(r))
             /\ (StartsWith(BaseName(r), <<"_">>) \/ IsFile(input, r))

C3_AsStated ==
    Completed =>
        \A p \in Paths \ {Root} :
            (Exists(input, p) /\ StartsWith(BaseName(p), <<"_">>)) =>
                /\ ~Exists(output, p)
                /\ \A w \in writes : ~IsPrefix(p, w.to)

\* C3 reached: an ignored input entry whose name the output held before.
C3_Case ==
    /\ Completed
    /\ \E p \in Paths \ {Root} :
          Exists(input, p) /\ StartsWith(BaseName(p), <<"_">>) /\ Exists(prior, p)

\* C4: after the next completed pass a deleted non-ignored input file has no
\* output counterpart left (an entry at that path is the counterpart of an
\* input file that still exists); and when a directory pair has been listed,
\* every output entry of it bears the name of an input entry (directories are
\* removed with their subtrees) before the pass has written any file into it.
C4_DeletedInputRemoved ==
    /\ Completed =>
          \A p \in gone :
              (NotIgnored(p) /\ Exists(output, Counterpart(p))) =>
                  \E f \in SyncedFiles : Counterpart(f) = Counterpart(p)
    /\ (status = "running" /\ last.op \in {"start", "dir"} /\ last.ok) =>
          /\ \A n \in ChildNames(output, last.path) : n \in ChildNames(input, last.path)
          /\ \A q \in Paths :
                (~Exists(output, q) /\ Exists(last.before, q)) =>
                    \E n \in Names : IsPrefix(Join(last.path, n), q)
                                     /\ n \notin ChildNames(input, last.path)
          /\ \A w \in writes : Parent(w.to) # last.path

\* C4 witness: the counterpart of a deleted input file was in the output when
\* the pass began and is gone after it.
C4_Witness ==
    /\ Completed
    /\ \E p \in gone :
          NotIgnored(p) /\ IsFile(prior, Counterpart(p)) /\ ~Exists(output, Counterpart(p))

\* outputStat is null or the input is strictly newer.
Stale(inputStat, outputStat) ==
    outputStat.kind = "none" \/ inputStat.mtime > outputStat.mtime

\* C5: a non-ignored file with no transformable extension whose output path
\* holds a file or nothing is written, as a copy of the input, exactly when no
\* output file exists or the input is strictly newer; otherwise the output
\* file keeps its content and modification time through the whole pass.
C5_CopyIffStale ==
    /\ (last.op = "static" /\ last.outputStat.kind # "dir") =>
          /\ last.ok
          /\ (last.wrote = {last.path}) <=> Stale(last.inputStat, last.outputStat)
          /\ last.wrote = {} <=> ~Stale(last.inputStat, last.outputStat)
          /\ Stale(last.inputStat, last.outputStat) =>
                /\ IsFile(output, last.path)
                /\ output[last.path].content = input[last.path].content
          /\ ~Stale(last.inputStat, last.outputStat) => output[last.path] = last.outputStat
    /\ Completed =>
          \A p \in SyncedFiles :
              (~Transformable(p) /\ ~IsDir(prior, p)) =>
                  /\ (\E w \in writes : w.to = p) <=> Stale(input[p], prior[p])
                  /\ ~Stale(input[p], prior[p]) => output[p] = prior[p]

\* C5 witness: an existing output file was overwritten because the input had
\* become strictly newer.
C5_Witness ==
    /\ last.op = "static"
    /\ last.outputStat.kind = "file"
    /\ last.inputStat.mtime > last.outputStat.mtime
    /\ last.wrote = {last.path}
    /\ output[last.path].content = input[last.path].content

\* C6: a completed pass has written every non-ignored transformable input file
\* with the result of the pipeline on its current content, whatever the
\* modification times of the input and of the output file it found; and a
\* transformable file is never handled by the copy-if-newer branch.
C6_AlwaysTransformed ==
    /\ Completed =>
          \A p \in SyncedFiles :
              Transformable(p) =>
                  /\ \E w \in writes : w.from = p /\ w.how = "result" /\ w.to = Counterpart(p)
                  /\ p \in visited
    /\ \A p \in visited : (IsFile(input, p) /\ Transformable(p)) =>
          \/ \E w \in writes : w.from = p /\ w.how = "result"
          \/ raised
    /\ (last.op = "transform" /\ last.ok) =>
          output[Counterpart(last.path)] = FileEntry(Rendered(last.path), now)
    /\ last.op = "static" => ~Transformable(last.path)

\* C6 witness: a transformable file was written although the output file it
\* found was newer than the input.
C6_Witness ==
    /\ last.op = "transform" /\ last.ok
    /\ last.outputStat.kind = "file"
    /\ last.outputStat.mtime > last.inputStat.mtime
    /\ last.wrote # {}

\* C7: the result of a transformed file is written to the post-pipeline value
\* of context.outputPath and to no other path: for a.md the pass writes a.html
\* and leaves the path a.md as it was.
C7_WritesFinalPath ==
    /\ \A w \in writes : w.how = "result" => w.to = Counterpart(w.from)
    /\ (last.op = "transform" /\ last.ok) =>
          /\ last.wrote = {Counterpart(last.path)}
          /\ \A q \in Paths :
                (q # Counterpart(last.path) /\ (debug => q # Join(Parent(last.path), BaseName(last.path) \o DebugSuffix)))
                    => output[q].content = last.before[q].content /\ output[q].kind = last.before[q].kind

\* C7 witness: a.md was transformed and a.html written.
C7_Witness ==
    /\ last.op = "transform" /\ last.ok
    /\ last.path = <<nMd>>
    /\ last.wrote = {<<nHtml>>}
    /\ IsFile(output, <<nHtml>>)
    /\ ~Exists(output, <<nMd>>)

\* C8: after a completed pass no directory below the output root is empty and
\* the root is still there; the pruning removes exactly directories that hold
\* no file at any depth (chains of nested empty directories included) and
\* leaves every file and every directory that holds a file in place.
C8_NoEmptyDirs ==
    /\ status = "done" =>
          /\ IsDir(output, Root)
          /\ \A p \in Paths \ {Root} : IsDir(output, p) => ChildNames(output, p) # {}
    /\ last.op = "prune" =>
          \A p \in Paths :
              /\ IsFile(last.before, p) => output[p] = last.before[p]
              /\ (IsDir(last.before, p) /\ \E f \in Paths : IsPrefix(p, f) /\ IsFile(last.before, f))
                    => IsDir(output, p)
              /\ (IsDir(last.before, p) /\ p # Root
                    /\ ~\E f \in Paths : IsPrefix(p, f) /\ IsFile(last.before, f))
                    => ~Exists(output, p)
              /\ ~Exists(last.before, p) => ~Exists(output, p)

\* C8 witness: a directory that held only an empty directory was pruned with it.
C8_Witness ==
    /\ last.op = "prune"
    /\ IsDir(last.before, <<nDir>>)
    /\ IsDir(last.before, <<nDir, nDir>>)
    /\ ~Exists(output, <<nDir>>)
    /\ \E p \in Paths \ {Root} : IsFile(output, p)

\* C9 as stated: a completed pass that follows a completed pass with no input
\* change in between leaves the output tree as it found it (same paths, same
\* contents) and rewrites no static file the pass before had copied.
C9_AsStated ==
    (Completed /\ repeat) =>
        /\ SameTree(output, prior)
        /\ \A w \in writes :
              w.how = "copy" => ~\E v \in prevWrites : v.how = "copy" /\ v.to = w.to

\* C9 reached: a second pass over an unchanged input rewrote a transformed file.
C9_Case ==
    /\ Completed /\ repeat
    /\ \E w \in writes : w.how = "result"

\* C10: once an error has been raised in a pass the pass is over: the error has
\* reached blargh's catch, and until another pass starts nothing more is
\* processed and nothing more is written to the output tree.
C10_ErrorAbortsPass ==
    /\ [](raised => status = "failed" /\ caught > 0)
    /\ [][(raised /\ passNo' = passNo) =>
            (output' = output /\ writes' = writes /\ visited' = visited /\ stack' = stack)]_vars
    /\ [][(raised' /\ ~raised) => (caught' = caught + 1 /\ ~last'.ok)]_vars

\* C10 witness: a file failed and a later sibling of it was left unprocessed.
C10_Witness ==
    /\ raised /\ status = "failed"
    /\ Len(stack[Len(stack)].items) > 1
    /\ \A i \in 2..Len(stack[Len(stack)].items) :
          Join(stack[Len(stack)].dir, stack[Len(stack)].items[i].name) \notin visited
    /\ \E i \in 2..Len(stack[Len(stack)].items) :
          ~StartsWith(stack[Len(stack)].items[i].name, <<"_">>)

\* C11: every error that escapes a pass is caught by blargh and logged; without
\* config.watch no pass follows the first one; with it a pass can start after
\* a failed one, the initial one included.
C11_AsStated ==
    /\ raised => (status = "failed" /\ caught > 0 /\ logged = caught)
    /\ ~watch => passNo <= 1
    /\ (watch /\ status = "failed" /\ passNo < MaxPasses) => ENABLED StartPass

\* C11 case: a pass failed on a file system error and nothing was logged.
C11_Case ==
    /\ status = "failed" /\ caught = 1 /\ logged = 0
    /\ ~last.ok /\ last.op \in {"dir", "static"}

\* C11, the boundary alone: the error is caught, the watch loop goes on, and no
\* pass follows the first one when not watching.
C11_Boundary ==
    /\ raised => (status = "failed" /\ caught > 0)
    /\ ~watch => passNo <= 1
    /\ (watch /\ status = "failed" /\ passNo < MaxPasses) => ENABLED StartPass

\* ------------------------------------------------ claims about the templates
LocalKeys == {"inputPath", "content", "outputPath"}
\* The outputPath of the Context the last render call derived.
DerivedOutputPath ==
    IF ev.props["outputPath"].def THEN ev.props["outputPath"].path ELSE ev.opath

\* C12: when the pipeline of a file ends, context.outputPath has the parent
\* directory it had when the pipeline began, and what a root file writes lies
\* in the output directory that mirrors the directory of its input file.
C12_AsStated ==
    ev.op \in {"return", "finish"} =>
        /\ Parent(ev.ctx["outputPath"].path) = Parent(ev.opath)
        /\ \A w \in ev.wrote : Parent(w) = Parent(ev.path)

\* C12 case: meta() loaded an outputPath key and the root file was written
\* into another directory.
C12_Case ==
    /\ ev.op = "finish" /\ ev.wrote = {<<nDir, nHtml>>}
    /\ ev.path = <<nHtml>>

\* C13: the Context render derives takes each key from the extra properties
\* if they have it, else from the include-local inputPath/content/outputPath,
\* else from the caller's Context as it is at the call; the caller's Context
\* is the same while the included file runs and after render has returned.
C13_DerivedContext ==
    /\ (ev.op = "call" /\ rstatus = "running") =>
          \A k \in Keys :
              Call.derived[k] =
                  IF ev.props[k].def THEN ev.props[k]
                  ELSE IF k \in LocalKeys THEN LocalProps(ev.path, "tpl", ev.opath)[k]
                  ELSE ev.ctx[k]
    /\ \A i \in 2..Len(calls) : calls[i - 1].context = calls[i].atCall
    /\ ev.op = "return" => Call.context = ev.caller

\* C13 witness: render has returned from an include that got a title from the
\* extra properties, while the caller's title is the one its statement set.
C13_Witness ==
    /\ ev.op = "return"
    /\ Call.set["title"].def
    /\ ev.ctx["title"].def
    /\ ev.ctx["title"] # Call.context["title"]

\* The files the last step wrote and the directories it made.
FilesWritten == {p \in Paths : IsFile(outTree, p) /\ outTree[p] # ev.tree[p]}
DirsMade == {p \in Paths : IsDir(outTree, p) /\ ~IsDir(ev.tree, p)}

\* C14 as stated: a render call writes no file into the output tree, whatever
\* the configuration.
C14_AsStated == ev.op \in {"call", "return"} => FilesWritten = {}

\* C14: a render call writes nothing but the debug artifact of the include
\* (and the directory it is put in) when config.debug is set; the derived
\* outputPath itself is never written.
C14_OnlyDebugArtifact ==
    /\ ev.op = "return" => (FilesWritten = {} /\ DirsMade = {})
    /\ ev.op = "call" =>
          /\ FilesWritten \subseteq {DebugPath(DerivedOutputPath)}
          /\ DirsMade \subseteq {Parent(DerivedOutputPath)}
          /\ ~cfgDebug => (FilesWritten = {} /\ DirsMade = {})

\* C14 witness: with debug an include was rendered and returned; its debug
\* artifact is in the output tree and its outputPath holds nothing.
C14_Witness ==
    /\ ev.op = "return" /\ cfgDebug
    /\ ev.opath = <<nDir, nHtml>>
    /\ IsFile(outTree, DebugPath(ev.opath))
    /\ ~Exists(outTree, ev.opath)

\* C15: a key a statement region has set is what a later expression region of
\* the file appends and what the Context derived by a later render holds
\* (unless the call overrides the key); a root file starts with the three
\* keys of a new Context and no key of the root file before.
C15_KeyVisibility ==
    /\ (ev.op = "get" /\ rstatus = "running" /\ Call.set["title"].def) =>
          ev.appended = <<Call.set["title"].txt>>
    /\ (ev.op = "call" /\ rstatus = "running") =>
          \A k \in Keys \ LocalKeys :
              (calls[Len(calls) - 1].set[k].def /\ ~ev.props[k].def) =>
                  Call.derived[k] = calls[Len(calls) - 1].set[k]
    /\ (ev.op = "root" /\ rstatus = "running") =>
          \A k \in Keys : Call.context[k].def <=> k \in LocalKeys

\* C15 witness: the second root file has started after a statement of the
\* first one set a title.
C15_Witness ==
    /\ ev.op = "root" /\ rstatus = "running"
    /\ lastContext["title"] = TextVal("s")

\* C17 as stated: no pass fails in the statements only config.debug runs
\* (transform 109-112); everything else a pass does is the same with and
\* without debug, so its outcome is.
C17_AsStated == ~(rstatus = "failed" /\ cause = "debug")

\* C17 case: the debug artifact of an include two directories down cannot be
\* written, the output tree has not got the directory above it yet.
C17_Case ==
    /\ rstatus = "failed" /\ cause = "debug" /\ cfgDebug
    /\ ev.op = "call" /\ ev.opath = <<nDir, nDir, nHtml>>
    /\ ~Exists(outTree, <<nDir>>)

\* --------------------------------------------------------- claims about metas
\* The directories below dir that hold a meta.json, at any depth, depth-first.
RECURSIVE AllMetasIn(_, _, _, _)
AllMetasIn(tree, dirPath, dir, files) ==
    IF files = <<>> THEN <<>>
    ELSE LET fullPath == dir \o <<Head(files)>>
             own == IF ExistsMeta(tree, fullPath)
                    THEN <<[directory |-> Relative(dirPath, fullPath),
                            meta |-> JsonParse(tree[fullPath].meta)]>>
                    ELSE <<>>
             below == IF IsDirectory(tree, fullPath)
                      THEN AllMetasIn(tree, dirPath, fullPath, ReadDir(tree, fullPath))
                      ELSE <<>>
         IN own \o below \o AllMetasIn(tree, dirPath, dir, Tail(files))

\* C16: metas(dirPath) returns, depth-first, one record for every meta.json in
\* a directory below dirPath at any depth, tagged with the relative path of
\* the directory, and nothing for a directory with none at or below it.
C16_AsStated ==
    metaPhase = "called" =>
        metaResult = AllMetasIn(metaTree, metaArg, metaArg, ReadDir(metaTree, metaArg))

\* C16 case: a directory with a meta.json holds a directory with a meta.json
\* and the call returned the record of the outer one alone.
C16_Case ==
    /\ metaPhase = "called" /\ metaArg = <<>>
    /\ ExistsMeta(metaTree, <<"p">>) /\ ExistsMeta(metaTree, <<"p", "q">>)
    /\ Len(metaResult) = 1

\* C16, what holds: the records are those of the outermost directories with a
\* meta.json below dirPath, each once, in depth-first order.
C16_Outermost ==
    metaPhase = "called" =>
        LET all == AllMetasIn(metaTree, metaArg, metaArg, ReadDir(metaTree, metaArg))
            outer(r) == \A i \in 1..(Len(r.directory) - 1) :
                            ~ExistsMeta(metaTree, metaArg \o SubSeq(r.directory, 1, i))
        IN metaResult = SelectSeq(all, outer)

\* ------------------------------------------ claims about tokenize and compile
Occurs(pat, str) == IndexOf(str, pat, 1) # 0

\* C18: a text with no delimiter in it, quotes, backslashes, line feeds and
\* carriage returns or not, empty or not, is what compile followed by
\* interpret returns.
C18_RoundTrip ==
    (textPhase \in {"evaluated", "failed"}
     /\ ~Occurs(OpenTag, textInput) /\ ~Occurs(CloseTag, textInput)) =>
        (textPhase = "evaluated" /\ textOutput = textInput)

\* C18 witness: a text of a quote, a backslash, a line feed and a carriage
\* return has been compiled and evaluated.
C18_Witness ==
    /\ textPhase = "evaluated"
    /\ textInput = <<Quote, Backslash, LineFeed, CarriageReturn>>
    /\ textOutput = textInput

\* The text a token stands for: a code token is wrapped in the delimiters.
RECURSIVE Reconstruct(_)
Reconstruct(tokens) ==
    IF tokens = <<>> THEN <<>>
    ELSE (IF Head(tokens).type = "expression"
          THEN OpenTag \o Head(tokens).text \o CloseTag
          ELSE Head(tokens).text) \o Reconstruct(Tail(tokens))

\* C20: the tokens put together again give the text, no content token is
\* empty, and an open delimiter with no close delimiter after it is content
\* up to the end of the text.
C20_AsStated ==
    textPhase = "tokenized" =>
        /\ Reconstruct(textTokens) = textInput
        /\ \A i \in 1..Len(textTokens) :
              textTokens[i].type = "content" => textTokens[i].text # <<>>
        /\ \A i \in 1..(Len(textInput) - 1) :
              (SubSeq(textInput, i, i + 1) = OpenTag
               /\ IndexOf(textInput, CloseTag, i + 2) = 0)
              => (textTokens # <<>>
                  /\ textTokens[Len(textTokens)].type = "content"
                  /\ EndsWith(textTokens[Len(textTokens)].text,
                              SubSeq(textInput, i, Len(textInput))))

\* C20 case: the text <%> has become a code token.
C20_Case ==
    /\ textPhase = "tokenized"
    /\ textInput = <<"<", "%", ">">>
    /\ textTokens = <<[type |-> "expression", text |-> <<"%">>]>>

\* C20, what holds: the same for every text whose split has no part <%>.
C20_Reconstructs ==
    (textPhase = "tokenized"
     /\ \A i \in 1..Len(SplitFrom(textInput, OpenTag, CloseTag, 1)) :
           SplitFrom(textInput, OpenTag, CloseTag, 1)[i] # <<"<", "%", ">">>) =>
        /\ Reconstruct(textTokens) = textInput
        /\ \A i \in 1..Len(textTokens) :
              textTokens[i].type = "content" => textTokens[i].text # <<>>

\* ------------------------------------------------ claims about the program's run
IsExpressionRegion(token) == token.type = "expression" /\ StartsWith(token.text, <<"=">>)

\* The position of the "}" that closes the loop opened by the first token.
RECURSIVE MatchEnd(_, _, _)
MatchEnd(tokens, i, depth) ==
    IF tokens[i].text = ForText /\ tokens[i].type = "expression"
    THEN MatchEnd(tokens, i + 1, depth + 1)
    ELSE IF tokens[i].text = EndText /\ tokens[i].type = "expression"
    THEN IF depth = 1 THEN i ELSE MatchEnd(tokens, i + 1, depth - 1)
    ELSE MatchEnd(tokens, i + 1, depth)

RECURSIVE Repeat(_, _)
Repeat(str, n) == IF n = 0 THEN <<>> ELSE str \o Repeat(str, n - 1)

\* What the tokens append when run in token order: a literal its text, an
\* expression region its value, a loop its body once an iteration.
RECURSIVE InOrderOutput(_)
InOrderOutput(tokens) ==
    IF tokens = <<>> THEN <<>>
    ELSE LET t == Head(tokens)
         IN IF t.type = "content" THEN t.text \o InOrderOutput(Tail(tokens))
            ELSE IF IsExpressionRegion(t)
            THEN Substring(t.text, 1, Len(t.text)) \o InOrderOutput(Tail(tokens))
            ELSE IF t.text = ForText
            THEN LET m == MatchEnd(tokens, 1, 0)
                 IN Repeat(InOrderOutput(SubSeq(tokens, 2, m - 1)), LoopIterations)
                    \o InOrderOutput(SubSeq(tokens, m + 1, Len(tokens)))
            ELSE InOrderOutput(Tail(tokens))

\* Whatever a token does happens after the value of every expression region
\* before it has been appended.
AppendsFirst ==
    \A k \in 1..Len(evTrace) :
        \A i \in 1..(evTrace[k].tok - 1) :
            IsExpressionRegion(evTokens[i]) =>
                \E j \in 1..(k - 1) : evTrace[j] = [op |-> "append", tok |-> i]

\* C19: the appends happen in token order, the value of an expression region
\* before the statement of any later token runs, in whatever order the
\* promises resolve; the result is the concatenation from left to right, a
\* literal in a loop once an iteration.
C19_AsStated ==
    /\ AppendsFirst
    /\ evPhase = "done" => evOut = InOrderOutput(evTokens)

\* C19 case: the statement of the region after an expression region has run
\* and the value of the expression region was never appended.
C19_Case ==
    /\ evPhase = "error"
    /\ evTokens = <<[type |-> "expression", text |-> <<"=", "a">>],
                    [type |-> "expression", text |-> <<"(", "s", ")", ";">>]>>
    /\ evTrace = <<[op |-> "run", tok |-> 2]>>
    /\ evOut = <<>>

\* C19, what holds: the same for every program in which no statement of an
\* expression region is joined with the line after it.
C19_InOrder ==
    (\A i \in 1..Len(evTokens) : ~Joined(Program(evTokens), i)) =>
        /\ AppendsFirst
        /\ evPhase = "done" => evOut = InOrderOutput(evTokens)
        /\ evPhase = "error" => ~Balanced(Statements(evTokens), 0)

\* A run of two expression regions whose promises resolved in the other
\* order.
C19_OrderCase ==
    /\ evPhase = "done"
    /\ evSettled = <<<<"b">>, <<"a">>>>
    /\ evTokens = <<[type |-> "expression", text |-> <<"=", "a">>],
                    [type |-> "expression", text |-> <<"=", "b">>]>>
    /\ evOut = <<"a", "b">>

\* --------------------------------------------------------------------- C21
\* The extensions the README names as transformed by default.
NamedExtensions ==
    {MdSuffix, HtmlSuffix, <<".", "c", "s", "s">>, <<".", "j", "s">>}
FileExtension == ToLowerCase(ExtName(fileName))
FileDone == fileOp \notin {"none", "off"} /\ ~IsIgnoredName(fileName)

\* C21: with the default configuration a file is transformed by the template
\* pipeline exactly when its extension is .md, .html, .css or .js; a file of
\* any other type is never transformed, and what is written for it is the
\* bytes of the input file.
C21_AsStated ==
    FileDone =>
        /\ fileOp = "transform" <=> FileExtension \in NamedExtensions
        /\ FileExtension \notin NamedExtensions /\ fileOp = "copy"
               => fileBytes = fileInStat.content

\* A .txt file whose output is newer than the input went through the pipeline:
\* the evaluated text was written where a copy would have written nothing.
C21_Case ==
    /\ fileOp = "transform"
    /\ fileName = <<"x", ".", "t", "x", "t">>
    /\ fileOutStat.kind = "file" /\ fileOutStat.mtime > fileInStat.mtime
    /\ fileBytes.form = "evaluated"

\* What the code does: the transformed files are those whose lower-cased
\* extension is one of the six of defaultConfig.transformedExtensions; every
\* other file is copied byte for byte when the output is missing or older,
\* and left alone otherwise.
C21_SixExtensions ==
    FileDone =>
        /\ fileOp = "transform" <=> FileExtension \in TransformedExtensions
        /\ fileOp = "copy" => fileBytes = fileInStat.content
        /\ fileOp = "skip" => fileBytes = NoContent

\* --------------------------------------------------------------------- C22
\* The output files of the first pass that were there before blargh was
\* called and that no write of the pass touched.
Survivors ==
    {p \in Paths : IsFile(output, p) /\ output[p] = prior[p]
                   /\ ~\E w \in writes : w.to = p}

\* C22: blargh empties the output directory before processing starts, so after
\* the first pass no file is left from an earlier run unless this run wrote it
\* again.
C22_AsStated == Completed /\ passNo = 1 => Survivors = {}

\* A static file an earlier run left, not older than its input file, is still
\* there after the first pass with the content the earlier run wrote.
C22_Case ==
    /\ Completed /\ passNo = 1
    /\ <<nPng>> \in Survivors
    /\ IsFile(input, <<nPng>>)
    /\ output[<<nPng>>].content = Raw("old")

\* --------------------------------------------------------------------- C28
\* The results and copies the current pass has written (debug artifacts apart).
FileWrites == {w \in writes : w.how # "debug"}

\* C28: within one pass distinct input files are written to distinct output
\* paths: no output file the pass wrote is written again by the pass with the
\* result of another input file.
C28_AsStated ==
    \A w1, w2 \in FileWrites : w1.from # w2.from => w1.to # w2.to

\* a.html and a.md of one directory: the pass wrote a.html for a.html and then
\* again for a.md, and the converted markdown is what the file holds.
C28_Case ==
    /\ Completed
    /\ WriteRec(<<nHtml>>, <<nHtml>>, "result") \in writes
    /\ WriteRec(<<nHtml>>, <<nMd>>, "result") \in writes
    /\ output[<<nHtml>>].content.form = "html"
    /\ ~Exists(output, <<nMd>>)

\* Apart from a .md file and the .html file of the same name, the output paths
\* of a pass are distinct: every other write goes to the input file's own path.
C28_OnlyMarkdown ==
    \A w \in FileWrites :
        \/ w.to = w.from
        \/ /\ EndsWith(BaseName(w.from), MdSuffix)
           /\ w.to = MarkdownPath(w.from)

\* --------------------------------------------------------------------- C29
\* The non-ignored input entries whose output entry, when the current pass
\* started, was of the other kind.
Mismatched ==
    {p \in Paths : /\ p # Root /\ NotIgnored(p)
                   /\ Exists(input, p) /\ Exists(prior, p)
                   /\ input[p].kind # prior[p].kind}
PassEnded == status \in {"done", "failed"} /\ ~edited

\* C29: when an input entry and the output entry of the same name differ in
\* kind, the pass completes without error and leaves at that name an output
\* entry of the input's kind.
C29_AsStated ==
    PassEnded =>
        /\ status = "failed" => last.path \notin Mismatched
        /\ status = "done" => \A p \in Mismatched : output[p].kind = input[p].kind

\* An input directory whose output entry is a file: the pass failed in the
\* readdirSync of the output side, and the file is still there.
C29_DirCase ==
    /\ status = "failed" /\ ~edited
    /\ last.path = <<nDir>> /\ last.op = "dir"
    /\ IsDir(input, <<nDir>>) /\ IsFile(output, <<nDir>>)

\* An input file whose output entry is an empty directory, not older than the
\* file: nothing is written, the pruning removes the directory, and the pass
\* completes with no output entry at that name.
C29_FileCase ==
    /\ Completed
    /\ <<nPng>> \in Mismatched
    /\ IsFile(input, <<nPng>>) /\ ~Exists(output, <<nPng>>)

\* No pass repairs a mismatch it found: when the pass has ended, the output
\* entry is still not of the input's kind.
C29_NeverRepaired ==
    PassEnded => \A p \in Mismatched : output[p].kind # input[p].kind

\* --------------------------------------------------------------------- C30
\* C30: parseArgs terminates for every argument list, returning a Config or
\* throwing; "--serve" without a port value is accepted with port 8080; the
\* argument index advances on every iteration of the loop.
C30_AsStated ==
    argPhase = "loop" => argI > argIter /\ argIter <= Len(argv)

\* "--serve" as the last argument: the loop has run more iterations than there
\* are arguments, the index stands where it stood, nothing was returned.
C30_Case ==
    /\ argv = <<wIn, wPath, wServe>>
    /\ argPhase = "loop"
    /\ argI = 3
    /\ argIter = MaxIterations
    /\ args[wServe] = Value(DefaultPort)

\* Every list in which each "--serve" is followed by a value that is not an
\* option is parsed in at most one iteration a word, the index advancing each
\* time, and ends returned, thrown or exited.
C30_OtherLists ==
    argPhase = "loop" /\ (\A i \in 1..Len(argv) :
                             argv[i] = wServe => i < Len(argv) /\ ~IsOptionName(argv[i + 1]))
        => argI > argIter /\ argIter <= Len(argv)

\* A list that is parsed: the Config of --in p --out p.
C30_Returned ==
    /\ argPhase = "returned"
    /\ argConfig.inputPath = wPath /\ argConfig.outputPath = wPath
    /\ ~argConfig.serve

\* --------------------------------------------------------------------- C25
\* The phases of a call that runs to its return, as the configuration lists
\* them: compile (and the debug artifact), every extender once in registration
\* order, interpret, every transformer in registration order.
AllPhases ==
    (IF tDebug THEN <<Phase("compile", ""), Phase("debug", "")>> ELSE <<Phase("compile", "")>>)
    \o [i \in 1..Len(contextExtenders) |-> Phase("extender", contextExtenders[i].id)]
    \o <<Phase("interpret", "")>>
    \o [i \in 1..Len(transformers) |-> Phase("transformer", transformers[i].id)]
\* The extenders registered for a key, and the value the last of them sets.
Setters(key) == {i \in 1..Len(contextExtenders) : contextExtenders[i].key = key}
LastSet(key) ==
    contextExtenders[CHOOSE i \in Setters(key) : \A j \in Setters(key) : j <= i].val
\* The marks of the first n transformers, in registration order.
Marks(n) == [i \in 1..n |-> transformers[i].mark]

\* C25: in every transform call the phases run in the order compile, all
\* context extenders once each in registration order, interpret, all
\* transformers in registration order, each transformer receiving the output
\* of the one before; a key two extenders set has the later-registered one's
\* value when the template reads it; no transformer runs when interpretation
\* fails.
C25_PhaseOrder ==
    /\ IsPrefix(tTrace, AllPhases)
    /\ tPhase = "returned" => tTrace = AllPhases
    /\ tPhase \in {"transform", "returned"} =>
           /\ \A key \in ExtKeys : Setters(key) # {} =>
                  tOutput[IF key = "k" THEN 1 ELSE 2] = LastSet(key)
           /\ SubSeq(tOutput, 3, Len(tOutput)) = Marks(tIndex - 1)
    /\ tContent = "boom" =>
           \A i \in 1..Len(tTrace) : tTrace[i].op # "transformer"

\* A call that returned with two extenders of the key k and two different
\* transformers: the template read the second extender's value, and the
\* output carries the two marks in registration order.
C25_Witness ==
    /\ tPhase = "returned"
    /\ contextExtenders = <<Extender("e1", "k", "1"), Extender("e2", "k", "2")>>
    /\ Len(transformers) = 2 /\ transformers[1].id = "t2" /\ transformers[2].id = "t1"
    /\ tContext = [k \in ExtKeys |-> IF k = "k" THEN "2" ELSE "0"]
    /\ tOutput = <<"2", "0", "y", "x">>

\* A call whose interpretation failed with transformers registered.
C25_FailedCase ==
    /\ tPhase = "thrown"
    /\ tContent = "boom"
    /\ Len(transformers) = 2
    /\ tTrace[Len(tTrace)] = Phase("interpret", "")

\* --------------------------------------------------------------------- C23
PassIds == 1..MaxWatchPasses
IsStarted(i) == i <= Len(wPasses)
HasEnded(i) == i <= Len(wPasses) /\ Ended(wPasses[i])
\* A step leaves every pass that exists a pass that exists, an ended one as it
\* ended, and takes none back out of the middle of its traversal.
KeepsPasses ==
    /\ Len(wPasses') >= Len(wPasses)
    /\ \A i \in 1..Len(wPasses) :
           /\ Ended(wPasses[i]) => wPasses'[i] = wPasses[i]
           /\ wPasses'[i].status \in {"running", "suspended", "done", "failed"}
\* A notification that finds a pass suspended starts a pass in the same step.
StartsAtOnce ==
    (Len(wPasses') > Len(wPasses)) =>
        /\ Len(wPasses') = Len(wPasses) + 1
        /\ wPasses'[Len(wPasses')].status = "running"
        /\ wPasses'[Len(wPasses')].stack # <<>>
        /\ \A i \in 1..Len(wPasses) : wPasses'[i] = [wPasses[i] EXCEPT
               !.overlapped = @ \/ InProgress(wPasses[i])]

\* C23: watch triggers are neither debounced nor queued and passes are never
\* cancelled: a notification that arrives while a pass is suspended in an
\* await starts a new full-tree pass at once, so that two passes are in
\* progress together, and every started pass eventually completes or fails
\* whatever notifications follow.
C23_NoCancel ==
    /\ [][KeepsPasses /\ StartsAtOnce]_watchVars
    /\ \A i \in PassIds : IsStarted(i) ~> HasEnded(i)

\* Two passes started by notifications are suspended in an await together.
C23_Witness ==
    /\ Len(wPasses) = 3
    /\ wPasses[2].status = "suspended" /\ wPasses[3].status = "suspended"
    /\ wPasses[2].overlapped /\ wPasses[3].overlapped

\* --------------------------------------------------------------------- C24
\* The log entries with which a pass starts on an item.
StartsItem(e) == e.op \in {"begin", "static", "enter"}
\* Between the positions a and b of a log there is an entry op of path p.
Between(log, a, b, op, p) ==
    \E c \in (a + 1)..(b - 1) : log[c].op = op /\ log[c].path = p
\* One pass is sequential: whenever it starts on an item, the file it began
\* before has been written, and the subdirectory it entered before has been
\* left unless the item lies in it.
Sequential(pass) ==
    LET log == pass.log
    IN \A a, b \in 1..Len(log) :
          a < b /\ StartsItem(log[b]) =>
              /\ log[a].op = "begin" => Between(log, a, b, "write", log[a].path)
              /\ log[a].op = "enter" /\ ~IsPrefix(log[a].path, log[b].path)
                     => Between(log, a, b, "leave", log[a].path)

\* C24: within one pass files are processed strictly one after the other: a
\* file's read, pipeline and write start only when the write of the sibling
\* before has finished, and a sibling that follows a subdirectory starts only
\* when the traversal of the whole subdirectory has finished, also when an
\* evaluation suspends in an await.
C24_Sequential ==
    \A i \in 1..Len(wPasses) :
        /\ Sequential(wPasses[i])
        /\ Cardinality(wPasses[i].pending) <= 1
        /\ wPasses[i].pending # {} <=> wPasses[i].status = "suspended"

\* A pass that was suspended in a.html and again in d/a.html, inside the
\* subdirectory d, and went on to the sibling e.txt after d was left, while
\* another pass was in progress.
C24_Witness ==
    \E i \in 1..Len(wPasses) :
        LET log == wPasses[i].log
        IN /\ wPasses[i].overlapped
           /\ Len(log) = 9
           /\ log[1] = [op |-> "begin", path |-> <<nHtml>>]
           /\ log[2] = [op |-> "write", path |-> <<nHtml>>]
           /\ log[3] = [op |-> "static", path |-> <<nPng>>]
           /\ log[4] = [op |-> "enter", path |-> <<nDir>>]
           /\ log[5] = [op |-> "begin", path |-> <<nDir, nHtml>>]
           /\ log[6] = [op |-> "write", path |-> <<nDir, nHtml>>]
           /\ log[7] = [op |-> "leave", path |-> <<nDir>>]
           /\ log[8] = [op |-> "begin", path |-> <<nTxt>>]
           /\ log[9] = [op |-> "write", path |-> <<nTxt>>]

\* --------------------------------------------------------------------- C26
AllEnded == wPasses # <<>> /\ \A i \in 1..Len(wPasses) : Ended(wPasses[i])
SomeOverlap == \E i \in 1..Len(wPasses) : wPasses[i].overlapped
NoneFailed == \A i \in 1..Len(wPasses) : wPasses[i].status # "failed"

\* C26 as stated: when passes over an unchanged input tree overlap, none of
\* them fails and, once all of them have finished, the output tree equals the
\* tree a single pass produces: no interleaving of one pass's stale deletion,
\* writes and pruning with another pass's suspended pipeline loses an output
\* file or directory.
C26_AsStated ==
    /\ (wPasses # <<>> /\ wPasses[1].status = "done" /\ SomeOverlap) => NoneFailed
    /\ (AllEnded /\ wPasses[1].status = "done" /\ SomeOverlap)
           => SameTree(wOutput, wSingle)

\* The case: the single pass produced d/a.html; of two overlapping passes one
\* failed at the write of d/a.md's result, all passes have finished and the
\* output has no directory d.
C26_Case ==
    /\ AllEnded /\ wPasses[1].status = "done" /\ SomeOverlap
    /\ IsFile(wSingle, <<nDir, nHtml>>)
    /\ ~Exists(wOutput, <<nDir>>)
    /\ \E i \in 2..Len(wPasses) :
           /\ wPasses[i].status = "failed"
           /\ wPasses[i].log[Len(wPasses[i].log)] = [op |-> "fail", path |-> <<nDir, nMd>>]

\* Passes that do not overlap: when the first has completed none fails, and
\* the output after the last equals the output after the first.
C26_OneAtATime ==
    /\ (wPasses # <<>> /\ wPasses[1].status = "done" /\ ~SomeOverlap) => NoneFailed
    /\ (AllEnded /\ wPasses[1].status = "done" /\ ~SomeOverlap)
           => SameTree(wOutput, wSingle)

\* --------------------------------------------------------------------- C27
\* The positions of a log at which rss wrote a feed file.
FeedWrites(log) == {k \in 1..Len(log) : log[k].op = "rss"}
\* The feed is written during the evaluation of the file begun just before,
\* whose own write, when it is made, comes after.
FeedFirst(log) ==
    \A k \in FeedWrites(log) :
        /\ k > 1 /\ log[k - 1].op = "begin"
        /\ \A j \in 1..Len(log) :
               (log[j].op = "write" /\ log[j].path = log[k - 1].path) => j > k
\* The feed files the first pass wrote are in the tree it left.
FeedsKept(log) ==
    \A k \in FeedWrites(log) : /\ IsFile(wSingle, log[k].path)
                               /\ wSingle[log[k].path].content = FeedXml
\* The pass enters the directory of the feed written at k after writing it.
EntersLater(log, k) ==
    \E j \in (k + 1)..Len(log) : log[j] = [op |-> "enter", path |-> Parent(log[k].path)]

\* C27 as stated: a feed file written by rss during the evaluation of a file
\* is written before that file's own output, and it exists with the written
\* content in the output tree when the pass completes, for every target path,
\* including a target inside a subdirectory that the pass traverses before or
\* after the calling file.
C27_AsStated ==
    /\ \A i \in 1..Len(wPasses) : FeedFirst(wPasses[i].log)
    /\ (wPasses # <<>> /\ wPasses[1].status = "done") => FeedsKept(wPasses[1].log)

\* The case: a.html wrote the feed d/e.txt into the directory d an earlier
\* run had left, the pass then traversed d and completed, and the tree it
\* left has no d/e.txt.
C27_Case ==
    /\ wPasses # <<>> /\ wPasses[1].status = "done"
    /\ \E k \in FeedWrites(wPasses[1].log) :
           /\ wPasses[1].log[k].path = <<nDir, nTxt>>
           /\ wPasses[1].log[k - 1].path = <<nHtml>>
           /\ EntersLater(wPasses[1].log, k)
    /\ ~Exists(wSingle, <<nDir, nTxt>>)
    /\ IsFile(wSingle, <<nHtml>>) /\ IsFile(wSingle, <<nDir, nHtml>>)

\* The same input on a first build: the output has no directory d yet, rss
\* cannot write the feed and the pass fails in a.html.
C27_FirstBuild ==
    /\ wPasses # <<>> /\ wPasses[1].status = "failed"
    /\ wPasses[1].log = <<[op |-> "begin", path |-> <<nHtml>>],
                          [op |-> "fail", path |-> <<nHtml>>]>>
    /\ wInput[<<nHtml>>].content.txt = "feedSub"
    /\ ~Exists(wOutput, <<nDir>>)

\* A feed is written before its file's output, and a feed whose directory the
\* pass does not enter afterwards (the calling file's own directory, or a
\* subdirectory traversed before the calling file) is in the tree the pass
\* leaves.
C27_TraversedBefore ==
    /\ \A i \in 1..Len(wPasses) : FeedFirst(wPasses[i].log)
    /\ (wPasses # <<>> /\ wPasses[1].status = "done") =>
           \A k \in FeedWrites(wPasses[1].log) :
               ~EntersLater(wPasses[1].log, k) =>
                   /\ IsFile(wSingle, wPasses[1].log[k].path)
                   /\ wSingle[wPasses[1].log[k].path].content = FeedXml

\* The feeds that are kept: one beside the calling file and one in a
\* subdirectory traversed before it.
C27_KeptCases ==
    /\ wPasses # <<>> /\ wPasses[1].status = "done"
    /\ FeedWrites(wPasses[1].log) # {}
    /\ FeedsKept(wPasses[1].log)
    /\ wInput[<<nTxt>>].kind = "file"

====
